---- MODULE Spec2Model ----
(***************************************************************************)
(* Calendly / Monday.com extraction scripts.                               *)
(*                                                                         *)
(*   Spec        the invitee export  (Extract/event_type_invitees.py: run) *)
(*               against a Calendly server that answers every request     *)
(*               with a page, a read timeout or another failure.           *)
(*                                                                         *)
(* Strings the code inspects (identifiers, addresses, timestamps) are      *)
(* sequences of one-character strings, so that startswith, fullmatch,      *)
(* split and urljoin are computed as the code computes them.               *)
(***************************************************************************)
EXTENDS Integers, Sequences, FiniteSets, TLC

(* ------------------------------ bounds -------------------------------- *)

\* read timeouts the network produces during one run
MaxTimeouts == 3
\* records the server puts on one page of a listing
PageCap == 2
\* the clock reading "now"; the look-back `days` ranges over 0..MaxTime
MaxTime == 2

(* ------------------------- program constants -------------------------- *)

MAX_RETRIES == 3
COUNT == 100

BASE == <<"h","t","t","p","s",":","/","/","a","p","i",".","c","a","l","e","n","d","l","y",".","c","o","m","/">>

(* ------------------------- python-like values ------------------------- *)

\* None, where the code holds a string (an address, a field value)
None == <<"<None>">>
\* None, where the code holds a dict (params, the event type, a response)
NoneDict == [none |-> TRUE]
\* {}
EmptyDict == [k \in {} |-> TRUE]

\* mutant of Truthy: only None is false
TruthyNotNone(s) == s # None

\* truthiness of an optional string: `while url`, `if not TOKEN`
Truthy(s) == s # None /\ s # <<>>

\* mutant of DictGet: d.get(key, "")
DictGetEmptyText(d, key) == IF key \in DOMAIN d THEN d[key] ELSE <<>>

\* d.get(key): None when the key is absent
DictGet(d, key) == IF key \in DOMAIN d THEN d[key] ELSE None

Rep(c, n) == [i \in 1..n |-> c]

Max(S) == CHOOSE m \in S : \A x \in S : x <= m

\* s.startswith(prefix)
StartsWith(s, prefix) ==
  Len(s) >= Len(prefix) /\ SubSeq(s, 1, Len(prefix)) = prefix

\* s.split("/")[-1]
LastSegment(s) ==
  LET cut == {i \in 1..Len(s) : s[i] = "/"}
  IN  IF cut = {} THEN s ELSE SubSeq(s, Max(cut) + 1, Len(s))

\* urljoin(BASE, rel) for a relative path; BASE ends with "/"
UrlJoin(base, rel) == base \o rel

HTTPS == <<"h","t","t","p","s",":","/","/">>
HexLower == {"0","1","2","3","4","5","6","7","8","9","a","b","c","d","e","f"}

\* mutant of UuidPattern: the {36} quantifier is lost
UuidPatternAnyLength(s) ==
  Len(s) >= 1 /\ \A i \in 1..Len(s) : s[i] \in HexLower \cup {"-"}

\* re.fullmatch(r"[0-9a-f\-]{36}", ident)
UuidPattern(s) ==
  Len(s) = 36 /\ \A i \in 1..Len(s) : s[i] \in HexLower \cup {"-"}

DIGITS == <<"0","1","2","3","4","5","6","7","8","9">>
Digit(n) == DIGITS[n + 1]
Undigit(c) == CHOOSE n \in 0..9 : DIGITS[n + 1] = c

P_USERS_ME == <<"u","s","e","r","s","/","m","e">>
P_EVENT_TYPES == <<"e","v","e","n","t","_","t","y","p","e","s">>
P_SCHEDULED_EVENTS == <<"s","c","h","e","d","u","l","e","d","_","e","v","e","n","t","s">>
P_INVITEES == <<"/","i","n","v","i","t","e","e","s">>
TZ_OFFSET == <<"+","0","0",":","0","0">>

\* dt.datetime.isoformat(timespec="seconds") of an aware UTC datetime: the
\* instant (one digit here) followed by the "+00:00" offset
IsoFormat(t) == <<Digit(t)>> \o TZ_OFFSET

(* ---------------------------------------------------------------------- *)
(* The Calendly server: what the organisation holds, and how a GET is     *)
(* answered.  The server honours the query it is sent (organization,     *)
(* status, min_start_time) and embeds it in the cursors it hands out.     *)
(* ---------------------------------------------------------------------- *)

USER_URI == UrlJoin(BASE, <<"u","s","e","r","s","/","U","1">>)
ORG_URI == UrlJoin(BASE, <<"o","r","g","a","n","i","z","a","t","i","o","n","s","/","O","1">>)

\* a 36-character identifier 8-4-4-4-12 made of the character c
UuidOf(c) ==
  Rep(c, 8) \o <<"-">> \o Rep(c, 4) \o <<"-">> \o Rep(c, 4) \o <<"-">>
    \o Rep(c, 4) \o <<"-">> \o Rep(c, 12)

EtUri(uuid) == UrlJoin(BASE, P_EVENT_TYPES \o <<"/">> \o uuid)
EvUri(uuid) == UrlJoin(BASE, P_SCHEDULED_EVENTS \o <<"/">> \o uuid)
IvListUrl(ev_uuid) == UrlJoin(BASE, P_SCHEDULED_EVENTS \o <<"/">> \o ev_uuid \o P_INVITEES)
IvUri(ev_uuid, iv_uuid) == IvListUrl(ev_uuid) \o <<"/">> \o iv_uuid

SLUG_AB == <<"a","b">>
SLUG_CD == <<"c","d">>

\* the organisation's event types, in the order the server lists them;
\* two of them share a slug (slugs are unique per owner, not per organisation)
ET_A == [uri |-> EtUri(UuidOf("a")), slug |-> SLUG_AB, name |-> <<"A">>]
ET_B == [uri |-> EtUri(UuidOf("1")), slug |-> SLUG_CD, name |-> <<"B">>]
ET_C == [uri |-> EtUri(UuidOf("c")), slug |-> SLUG_AB, name |-> <<"C">>]
EventTypes == <<ET_A, ET_B, ET_C>>

Event(uuid, et, t, status) ==
  [uri |-> EvUri(uuid), event_type |-> et.uri,
   start_time |-> <<Digit(t), "Z">>, status |-> status]

\* the organisation's scheduled events, in the order the server lists them;
\* the last one belongs to an event type whose reference extends ET_A's
ScheduledEvents ==
  << Event(<<"e","1">>, ET_A, 1, "active"),
     Event(<<"e","2">>, ET_B, 2, "active"),
     Event(<<"e","3">>, ET_A, 0, "canceled"),
     Event(<<"e","4">>, ET_A, 2, "active"),
     Event(<<"e","5">>, ET_C, 2, "canceled"),
     [Event(<<"e","6">>, ET_A, 1, "active") EXCEPT !.event_type = ET_A.uri \o <<"0">>] >>

\* the invitees of each event; the payload carries optional fields only
\* when they have a value
Invitees(ev_uuid) ==
  CASE ev_uuid = <<"e","1">> ->
         << [uri |-> IvUri(ev_uuid, <<"i","1">>), status |-> <<"a","c","t","i","v","e">>,
             invitee_email |-> <<"a","@","x">>, created_at |-> <<"1","Z">>],
            [uri |-> IvUri(ev_uuid, <<"i","2">>)],
            [uri |-> IvUri(ev_uuid, <<"i","3">>), invitee_email |-> <<"b","@","x">>] >>
    [] ev_uuid = <<"e","3">> ->
         << [status |-> <<"c","a","n","c","e","l","e","d">>, invitee_email |-> <<"c","@","x">>] >>
    [] ev_uuid = <<"e","5">> ->
         << [uri |-> IvUri(ev_uuid, <<"i","5">>), status |-> <<"c","a","n","c","e","l","e","d">>] >>
    [] OTHER -> <<>>

\* the instant a timestamp text denotes (the server reads the leading
\* instant and is lenient about what follows it)
ParseTime(s) == Undigit(s[1])

IsCursor(url) == \E i \in 1..Len(url) : url[i] = "?"
CursorBase(url) == SubSeq(url, 1, Max({i \in 1..Len(url) : url[i] = "?"}) - 1)
CursorTail(url) == SubSeq(url, Len(CursorBase(url)) + 2, Len(url))

\* the query a request carries: the cursor's own, or the params sent
QueryOf(url, params) ==
  IF IsCursor(url)
  THEN [status |-> CursorTail(url)[1], min |-> Undigit(CursorTail(url)[2]), org |-> TRUE]
  ELSE [status |-> IF "status" \in DOMAIN params
                   THEN (IF params.status = "active" THEN "a" ELSE "c") ELSE "-",
        min    |-> IF "min_start_time" \in DOMAIN params
                   THEN ParseTime(params.min_start_time) ELSE 0,
        org    |-> "organization" \in DOMAIN params /\ params.organization = ORG_URI]
PageNoOf(url) == IF IsCursor(url) THEN Undigit(CursorTail(url)[3]) ELSE 1
ListBaseOf(url) == IF IsCursor(url) THEN CursorBase(url) ELSE url
CursorFor(base, q, k) == base \o <<"?", q.status, Digit(q.min), Digit(k)>>

IsInviteeList(base) ==
  \E i \in 1..Len(ScheduledEvents) :
     base = IvListUrl(LastSegment(ScheduledEvents[i].uri))
InviteeListEvent(base) ==
  LastSegment(SubSeq(base, 1, Len(base) - Len(P_INVITEES)))

\* the records a listing holds for a query
Listing(base, q) ==
  IF base = UrlJoin(BASE, P_EVENT_TYPES) THEN EventTypes
  ELSE IF base = UrlJoin(BASE, P_SCHEDULED_EVENTS)
  THEN LET keep(ev) ==
             /\ (q.status = "-" \/ q.status = (IF ev.status = "active" THEN "a" ELSE "c"))
             /\ ParseTime(ev.start_time) >= q.min
       IN  SelectSeq(ScheduledEvents, keep)
  ELSE Invitees(InviteeListEvent(base))

NPages(list) ==
  IF Len(list) = 0 THEN 1 ELSE (Len(list) + PageCap - 1) \div PageCap
PageRecords(list, k) ==
  SubSeq(list, (k - 1) * PageCap + 1,
         IF k * PageCap < Len(list) THEN k * PageCap ELSE Len(list))

IsListing(base) ==
  \/ base = UrlJoin(BASE, P_EVENT_TYPES)
  \/ base = UrlJoin(BASE, P_SCHEDULED_EVENTS)
  \/ IsInviteeList(base)
IsResource(url) ==
  \/ url = UrlJoin(BASE, P_USERS_ME)
  \/ \E i \in 1..Len(EventTypes) : EventTypes[i].uri = url

\* whether the server answers this request with 200
Served(url, params) ==
  \/ ~IsCursor(url) /\ IsResource(url)
  \/ /\ IsListing(ListBaseOf(url))
     /\ params # NoneDict \/ IsCursor(url)
     /\ IsInviteeList(ListBaseOf(url)) \/ QueryOf(url, params).org
     /\ PageNoOf(url) <= NPages(Listing(ListBaseOf(url), QueryOf(url, params)))

\* the ways the last page of a listing says that nothing follows
TermForms == 1..4

\* the JSON body of the 200 answer
Respond(url, params, form) ==
  IF ~IsCursor(url) /\ url = UrlJoin(BASE, P_USERS_ME)
  THEN [resource |-> [uri |-> USER_URI, current_organization |-> ORG_URI]]
  ELSE IF ~IsCursor(url) /\ IsResource(url)
  THEN [resource |-> EventTypes[CHOOSE i \in 1..Len(EventTypes) : EventTypes[i].uri = url]]
  ELSE LET base == ListBaseOf(url)
           q    == QueryOf(url, params)
           k    == PageNoOf(url)
           list == Listing(base, q)
           recs == PageRecords(list, k)
       IN  IF k < NPages(list)
           THEN [collection |-> recs,
                 pagination |-> [count |-> Len(recs), next_page |-> CursorFor(base, q, k + 1)]]
           ELSE CASE form = 1 -> [collection |-> recs]
                  [] form = 2 -> [collection |-> recs, pagination |-> [count |-> Len(recs)]]
                  [] form = 3 -> [collection |-> recs,
                                  pagination |-> [count |-> Len(recs), next_page |-> None]]
                  [] OTHER    -> [collection |-> recs,
                                  pagination |-> [count |-> Len(recs), next_page |-> <<>>]]

(* ---------------------------------------------------------------------- *)
(* Extract/event_type_invitees.py: pure parts                             *)
(* ---------------------------------------------------------------------- *)

\* the row literal of run: output column, and how its value is read
\*   ev_uuid   the event's uuid (last segment of ev["uri"])
\*   ev_index  ev[key]
\*   get       iv.get(key)
\*   uri_tail  iv[key].split("/")[-1]
FIELD_MAP ==
  << [col |-> "event_uuid", kind |-> "ev_uuid", key |-> "uri"],
     [col |-> "event_start", kind |-> "ev_index", key |-> "start_time"],
     [col |-> "event_end", kind |-> "get", key |-> "end_time"],
     [col |-> "location", kind |-> "get", key |-> "location"],
     [col |-> "event_created", kind |-> "get", key |-> "created_at"],
     [col |-> "status", kind |-> "get", key |-> "status"],
     [col |-> "canceled_by", kind |-> "get", key |-> "canceled_by"],
     [col |-> "cancellation_reason", kind |-> "get", key |-> "cancellation_reason"],
     [col |-> "invitee_uuid", kind |-> "uri_tail", key |-> "uri"],
     [col |-> "user_name", kind |-> "get", key |-> "user_name"],
     [col |-> "user_email", kind |-> "get", key |-> "user_email"],
     [col |-> "team", kind |-> "get", key |-> "team"],
     [col |-> "invitee_name", kind |-> "get", key |-> "invitee_name"],
     [col |-> "invitee_first_name", kind |-> "get", key |-> "invitee_first_name"],
     [col |-> "invitee_last_name", kind |-> "get", key |-> "invitee_last_name"],
     [col |-> "invitee_email", kind |-> "get", key |-> "invitee_email"],
     [col |-> "invitee_time_zone", kind |-> "get", key |-> "invitee_time_zone"],
     [col |-> "invitee_accepted_marketing_emails", kind |-> "get", key |-> "invitee_accepted_marketing_emails"],
     [col |-> "text_reminder_number", kind |-> "get", key |-> "text_reminder_number"],
     [col |-> "event_type_name", kind |-> "get", key |-> "event_type_name"],
     [col |-> "question_1", kind |-> "get", key |-> "question_1"],
     [col |-> "response_1", kind |-> "get", key |-> "response_1"],
     [col |-> "question_2", kind |-> "get", key |-> "question_2"],
     [col |-> "response_2", kind |-> "get", key |-> "response_2"],
     [col |-> "question_3", kind |-> "get", key |-> "question_3"],
     [col |-> "response_3", kind |-> "get", key |-> "response_3"],
     [col |-> "question_4", kind |-> "get", key |-> "question_4"],
     [col |-> "response_4", kind |-> "get", key |-> "response_4"],
     [col |-> "question_5", kind |-> "get", key |-> "question_5"],
     [col |-> "response_5", kind |-> "get", key |-> "response_5"],
     [col |-> "utm_campaign", kind |-> "get", key |-> "utm_campaign"],
     [col |-> "utm_source", kind |-> "get", key |-> "utm_source"],
     [col |-> "utm_medium", kind |-> "get", key |-> "utm_medium"],
     [col |-> "utm_term", kind |-> "get", key |-> "utm_term"],
     [col |-> "utm_content", kind |-> "get", key |-> "utm_content"],
     [col |-> "salesforce_uuid", kind |-> "get", key |-> "salesforce_uuid"],
     [col |-> "event_price", kind |-> "get", key |-> "event_price"],
     [col |-> "payment_currency", kind |-> "get", key |-> "payment_currency"],
     [col |-> "guest_emails", kind |-> "get", key |-> "guest_emails"],
     [col |-> "invitee_reconfirmed", kind |-> "get", key |-> "invitee_reconfirmed"],
     [col |-> "marked_as_no_show", kind |-> "get", key |-> "marked_as_no_show"],
     [col |-> "meeting_notes", kind |-> "get", key |-> "meeting_notes"],
     [col |-> "group", kind |-> "get", key |-> "group"],
     [col |-> "invitee_scheduled_by", kind |-> "get", key |-> "invitee_scheduled_by"],
     [col |-> "scheduling_method", kind |-> "get", key |-> "scheduling_method"] >>

\* mutant of STATUSES: canceled events are fetched first
STATUSES_REVERSED == <<"canceled", "active">>

STATUSES == <<"active", "canceled">>

\* reading a mapped source key that raises KeyError when the key is absent
FieldRaises(f, ev, iv) ==
  \/ f.kind = "ev_index" /\ f.key \notin DOMAIN ev
  \/ f.kind = "uri_tail" /\ f.key \notin DOMAIN iv

FieldValue(f, ev_uuid, ev, iv) ==
  CASE f.kind = "ev_uuid"  -> ev_uuid
    [] f.kind = "ev_index" -> ev[f.key]
    [] f.kind = "get"      -> DictGet(iv, f.key)
    [] OTHER               -> LastSegment(iv[f.key])

\* whether building the row of invitee iv raises
FlattenRaises(ev, iv) ==
  \E i \in 1..Len(FIELD_MAP) : FieldRaises(FIELD_MAP[i], ev, iv)

\* the row dict of invitee iv, as its (column, value) items in insertion order
Flatten(ev_uuid, ev, iv) ==
  [i \in 1..Len(FIELD_MAP) |->
     <<FIELD_MAP[i].col, FieldValue(FIELD_MAP[i], ev_uuid, ev, iv)>>]

\* which lookup get_event_type uses for an identifier
Dispatch(id) ==
  IF StartsWith(id, HTTPS) THEN "uri"
  ELSE IF UuidPattern(id) THEN "uuid"
  ELSE "slug"

\* mutant of FirstBySlug: the last listed event type with the slug
LastBySlug(ets, id) ==
  LET hits == {i \in 1..Len(ets) : ets[i].slug = id}
  IN  IF hits = {} THEN NoneDict
      ELSE ets[CHOOSE i \in hits : \A j \in hits : i >= j]

\* next((et for et in ets if et["slug"] == ident), None)
FirstBySlug(ets, id) ==
  LET hits == {i \in 1..Len(ets) : ets[i].slug = id}
  IN  IF hits = {} THEN NoneDict
      ELSE ets[CHOOSE i \in hits : \A j \in hits : i <= j]

\* mutant of MatchingEvents: the event's reference starts with the uri
MatchingEventsPrefix(evs, et_uri) ==
  LET same(ev) == StartsWith(ev.event_type, et_uri) IN SelectSeq(evs, same)

\* [ev for ev in ... if ev["event_type"] == et["uri"]]
MatchingEvents(evs, et_uri) ==
  LET same(ev) == ev.event_type = et_uri IN SelectSeq(evs, same)

\* mutant of NextPage: the cursor is looked up on the page itself
NextPageTopLevel(page) == DictGet(page, "next_page")

\* page.get("pagination", {}).get("next_page")
NextPage(page) ==
  IF "pagination" \notin DOMAIN page THEN None
  ELSE DictGet(page.pagination, "next_page")

\* the params of get_event_type's listing, of list_org_events and of list_invitees
EventTypeParams(org) == [organization |-> org, count |-> COUNT]
\* mutant of OrgEventParams: min_start_time is not sent
OrgEventParamsNoMin(org, status, since_iso) ==
  [organization |-> org, status |-> status, count |-> COUNT]

OrgEventParams(org, status, since_iso) ==
  [organization |-> org, status |-> status, min_start_time |-> since_iso, count |-> COUNT]
InviteeParams == [count |-> COUNT]

\* mutant of RetriesExhausted: attempt > MAX_RETRIES
RetriesExhaustedLate(n) == n > MAX_RETRIES

\* attempt >= MAX_RETRIES: the timeout is re-raised
RetriesExhausted(n) == n >= MAX_RETRIES

\* mutant of Backoff: the delay grows by one second per attempt
BackoffByOne(n) == n + 1

\* backoff = 2 ** attempt
Backoff(n) == 2 ^ n

(* ---------------------------------------------------------------------- *)
(* Extract/event_type_invitees.py: one run                                *)
(* ---------------------------------------------------------------------- *)

\* identifiers a caller passes to run
ID_URI == ET_A.uri
ID_UUID == UuidOf("c")
ID_UUID_UPPER == UuidOf("C")
ID_HYPHENS == Rep("-", 36)
ID_HEX35 == Rep("a", 35)
ID_HTTP == <<"h","t","t","p",":","/","/","x">>
ID_UNKNOWN == <<"z","z">>
ID_SLUG_CASE == <<"A","b">>
Idents ==
  {ID_URI, ID_UUID, ID_UUID_UPPER, ID_HYPHENS, ID_HEX35, ID_HTTP,
   SLUG_AB, SLUG_CD, ID_UNKNOWN, ID_SLUG_CASE}

\* os.getenv("CALENDLY_API_KEY"): unset, empty, or a token
Tokens == {None, <<>>, <<"t","k">>}

NoFile == [none |-> TRUE]

VARIABLES
  \* Extract/event_type_invitees.py
  TOKEN,       \* module global TOKEN
  ident,       \* run's argument ident
  days,        \* run's argument days
  pc,          \* where the run is
  org_uri,     \* run: org_uri
  et,          \* run: et
  since,       \* run: the instant since_ts
  org_events,  \* list_org_events: events
  st_idx,      \* list_org_events: position in the status loop
  events,      \* run: events (the matching ones)
  ev_idx,      \* run: position in `for ev in events`
  rows,        \* run: rows
  g_url,       \* _get: url
  g_params,    \* _get: params
  attempt,     \* _get: attempt
  g_ret,       \* _get: who called
  resp,        \* the value _get returned
  pg_url,      \* _paginate: url
  pg_params,   \* _paginate: params
  pg_out,      \* _paginate: out
  pg_ret,      \* _paginate: who called
  pg_call,     \* history: the arguments of the current _paginate call and
               \*          the number of requests issued before it
  log,         \* history: every request issued, with its outcome
  slept,       \* history: every time.sleep duration
  timeouts,    \* history: read timeouts so far
  outfile,     \* the CSV written by df.to_csv, if any
  error,       \* the exception or exit message that ended the run
  \* the row literal of run, applied to one event and one invitee
  f_pc, f_ev, f_iv, f_row, f_err,
  \* utility_scripts/match_email.py
  d_pc,         \* where main is
  csv_monday,   \* the rows of the Monday CSV
  csv_ceint,    \* the rows of the first Calendly CSV
  csv_ce,       \* the rows of the second Calendly CSV
  monday_df,    \* main: monday_df
  calendly_df,  \* main: calendly_df
  matched_df,   \* main: matched_df
  d_file,       \* the CSV written by save_results, if any
  d_err,        \* the exception main caught and printed
  \* utility_scripts/download_data_monday.py
  m_pc,         \* where main is
  m_key,        \* os.getenv("MONDAY_API_KEY")
  m_board,      \* the groups the board holds
  m_groups,     \* fetch_data: groups
  m_idx,        \* fetch_data: position in GROUP_MAPPING.items()
  m_dataframes, \* fetch_data: dataframes, as (group_name, df) items
  m_log,        \* history: every fetch_groups / fetch_items_recursive call
  m_file,       \* the CSV written by master_df.to_csv, if any
  m_err         \* the exception that ended main

flatVars == <<f_pc, f_ev, f_iv, f_row, f_err>>
matchVars ==
  <<d_pc, csv_monday, csv_ceint, csv_ce, monday_df, calendly_df, matched_df, d_file, d_err>>
mondayVars ==
  <<m_pc, m_key, m_board, m_groups, m_idx, m_dataframes, m_log, m_file, m_err>>

exportVars ==
  <<TOKEN, ident, days, pc, org_uri, et, since, org_events, st_idx, events,
    ev_idx, rows, g_url, g_params, attempt, g_ret, resp, pg_url, pg_params,
    pg_out, pg_ret, pg_call, log, slept, timeouts, outfile, error>>

vars == <<exportVars, flatVars, matchVars, mondayVars>>

\* what a step of the invitee export leaves alone
otherVars == <<flatVars, matchVars, mondayVars>>

inputVars == <<TOKEN, ident, days>>
runVars == <<org_uri, et, since, org_events, st_idx, events, ev_idx, rows>>
getVars == <<g_url, g_params, attempt, g_ret>>
pgVars == <<pg_url, pg_params, pg_out, pg_ret, pg_call>>
histVars == <<log, slept, timeouts>>

\* the invitee export before run is called
ExportFresh ==
  /\ org_uri = None
  /\ et = NoneDict
  /\ since = 0
  /\ org_events = <<>>
  /\ st_idx = 0
  /\ events = <<>>
  /\ ev_idx = 0
  /\ rows = <<>>
  /\ g_url = None
  /\ g_params = NoneDict
  /\ attempt = 0
  /\ g_ret = "-"
  /\ resp = NoneDict
  /\ pg_url = None
  /\ pg_params = NoneDict
  /\ pg_out = <<>>
  /\ pg_ret = "-"
  /\ pg_call = NoneDict
  /\ log = <<>>
  /\ slept = <<>>
  /\ timeouts = 0
  /\ outfile = NoFile
  /\ error = "-"

\* the invitee export is not the program that runs
ExportIdle ==
  /\ TOKEN = None
  /\ ident = <<>>
  /\ days = 0
  /\ pc = "idle"
  /\ ExportFresh

\* run(ident, days) is called
ExportInit ==
  /\ TOKEN \in Tokens
  /\ ident \in Idents
  /\ days \in 0..MaxTime
  /\ pc = "start"
  /\ ExportFresh

\* mutant of CallGet: the attempt count of the previous call is carried on
CallGetKeepAttempt(url, params, ret) ==
  /\ g_url' = url
  /\ g_params' = params
  /\ attempt' = IF attempt = 0 THEN 1 ELSE attempt
  /\ g_ret' = ret
  /\ pc' = "get"

\* calling _get(url, params): attempt defaults to 1
CallGet(url, params, ret) ==
  /\ g_url' = url
  /\ g_params' = params
  /\ attempt' = 1
  /\ g_ret' = ret
  /\ pc' = "get"

\* calling _paginate(url, params): out = []
CallPaginate(url, params, ret) ==
  /\ pg_url' = url
  /\ pg_params' = params
  /\ pg_out' = <<>>
  /\ pg_ret' = ret
  /\ pg_call' = [url |-> url, params |-> params, mark |-> Len(log)]
  /\ pc' = "pg_loop"

Request(outcome) ==
  [url |-> g_url, params |-> g_params, attempt |-> attempt, outcome |-> outcome]

\* _get: the request is answered 200 and the body is returned
GetOk ==
  /\ pc = "get"
  /\ Served(g_url, g_params)
  /\ \E form \in TermForms : resp' = Respond(g_url, g_params, form)
  /\ log' = Append(log, Request("ok"))
  /\ pc' = g_ret
  /\ UNCHANGED <<otherVars, inputVars, runVars, getVars, pgVars, slept, timeouts, outfile, error>>

\* mutant of GetTimeout: inside _paginate a timeout that exhausts the
\* retries on a later page ends the pagination with the records so far
GetTimeoutReturnsPartial ==
  /\ pc = "get"
  /\ timeouts < MaxTimeouts
  /\ timeouts' = timeouts + 1
  /\ log' = Append(log, Request("timeout"))
  /\ IF RetriesExhausted(attempt)
     THEN /\ IF g_ret = "pg_page" /\ pg_out # <<>>
             THEN pc' = pg_ret /\ UNCHANGED error
             ELSE pc' = "raised" /\ error' = "ReadTimeout"
          /\ UNCHANGED <<attempt, slept>>
     ELSE /\ slept' = Append(slept, Backoff(attempt))
          /\ attempt' = attempt + 1
          /\ UNCHANGED <<pc, error>>
  /\ UNCHANGED <<otherVars, inputVars, runVars, g_url, g_params, g_ret, resp, pgVars, outfile>>

\* _get: the request ends in requests.exceptions.ReadTimeout
GetTimeout ==
  /\ pc = "get"
  /\ timeouts < MaxTimeouts
  /\ timeouts' = timeouts + 1
  /\ log' = Append(log, Request("timeout"))
  /\ IF RetriesExhausted(attempt)
     THEN /\ pc' = "raised"
          /\ error' = "ReadTimeout"
          /\ UNCHANGED <<attempt, slept>>
     ELSE /\ slept' = Append(slept, Backoff(attempt))
          /\ attempt' = attempt + 1
          /\ UNCHANGED <<pc, error>>
  /\ UNCHANGED <<otherVars, inputVars, runVars, g_url, g_params, g_ret, resp, pgVars, outfile>>

\* mutant of GetError: every requests exception is caught and retried
GetErrorRetried ==
  /\ pc = "get"
  /\ log' = Append(log, Request("error"))
  /\ IF RetriesExhausted(attempt)
     THEN /\ pc' = "raised"
          /\ \E e \in {"HTTPError", "ConnectionError"} : error' = e
          /\ UNCHANGED <<attempt, slept>>
     ELSE /\ slept' = Append(slept, Backoff(attempt))
          /\ attempt' = attempt + 1
          /\ UNCHANGED <<pc, error>>
  /\ UNCHANGED <<otherVars, inputVars, runVars, g_url, g_params, g_ret, resp, pgVars, timeouts, outfile>>

\* mutant of GetError: inside _paginate a failed page request is swallowed
\* and the pages collected so far are returned
GetErrorSwallowed ==
  /\ pc = "get"
  /\ log' = Append(log, Request("error"))
  /\ IF g_ret = "pg_page"
     THEN /\ resp' = [collection |-> <<>>, pagination |-> [next_page |-> None]]
          /\ pc' = g_ret
          /\ UNCHANGED error
     ELSE /\ \E e \in {"HTTPError", "ConnectionError"} : error' = e
          /\ pc' = "raised"
          /\ UNCHANGED resp
  /\ UNCHANGED <<otherVars, inputVars, runVars, getVars, pgVars, slept, timeouts, outfile>>

\* _get: the request fails in any other way (raise_for_status, a transport
\* error): nothing catches it
GetError ==
  /\ pc = "get"
  /\ log' = Append(log, Request("error"))
  /\ \E e \in {"HTTPError", "ConnectionError"} : error' = e
  /\ pc' = "raised"
  /\ UNCHANGED <<otherVars, inputVars, runVars, getVars, resp, pgVars, slept, timeouts, outfile>>

\* _paginate: `while url`
PaginateLoop ==
  /\ pc = "pg_loop"
  /\ IF Truthy(pg_url)
     THEN /\ CallGet(pg_url, pg_params, "pg_page")
          /\ UNCHANGED pgVars
     ELSE /\ pc' = pg_ret
          /\ pg_url' = None
          /\ pg_params' = NoneDict
          /\ UNCHANGED <<pg_out, pg_ret, pg_call, getVars>>
  /\ UNCHANGED <<otherVars, inputVars, runVars, resp, histVars, outfile, error>>

\* mutant of PaginateExtend: params is not reset after the first request
PaginateExtendKeepParams ==
  /\ pc = "pg_page"
  /\ pg_out' = pg_out \o resp.collection
  /\ pg_url' = NextPage(resp)
  /\ pc' = "pg_loop"
  /\ UNCHANGED <<otherVars, inputVars, runVars, getVars, resp, pg_params, pg_ret, pg_call,
                 histVars, outfile, error>>

\* _paginate: the loop body after _get returned
PaginateExtend ==
  /\ pc = "pg_page"
  /\ pg_out' = pg_out \o resp.collection
  /\ pg_url' = NextPage(resp)
  /\ pg_params' = NoneDict
  /\ pc' = "pg_loop"
  /\ UNCHANGED <<otherVars, inputVars, runVars, getVars, resp, pg_ret, pg_call, histVars, outfile, error>>

\* mutant of RunStart: the credential is not checked
RunStartUnchecked ==
  /\ pc = "start"
  /\ CallGet(UrlJoin(BASE, P_USERS_ME), EmptyDict, "me")
  /\ UNCHANGED <<otherVars, inputVars, runVars, resp, pgVars, histVars, outfile, error>>

\* run: the credential check, then current_user_and_org's request
RunStart ==
  /\ pc = "start"
  /\ IF ~Truthy(TOKEN)
     THEN /\ pc' = "exit"
          /\ error' = "CALENDLY_API_KEY must be set"
          /\ UNCHANGED getVars
     ELSE /\ CallGet(UrlJoin(BASE, P_USERS_ME), EmptyDict, "me")
          /\ UNCHANGED error
  /\ UNCHANGED <<otherVars, inputVars, runVars, resp, pgVars, histVars, outfile>>

\* current_user_and_org returns; run keeps the organisation
CurrentUserAndOrg ==
  /\ pc = "me"
  /\ org_uri' = resp.resource.current_organization
  /\ pc' = "resolve"
  /\ UNCHANGED <<otherVars, inputVars, et, since, org_events, st_idx, events, ev_idx, rows,
                 getVars, resp, pgVars, histVars, outfile, error>>

\* get_event_type: the dispatch on the identifier
GetEventType ==
  /\ pc = "resolve"
  /\ CASE Dispatch(ident) = "uri" ->
            CallGet(ident, EmptyDict, "et_direct") /\ UNCHANGED pgVars
       [] Dispatch(ident) = "uuid" ->
            /\ CallGet(UrlJoin(BASE, P_EVENT_TYPES \o <<"/">> \o ident), EmptyDict, "et_direct")
            /\ UNCHANGED pgVars
       [] OTHER ->
            /\ CallPaginate(UrlJoin(BASE, P_EVENT_TYPES), EventTypeParams(org_uri), "et_list")
            /\ UNCHANGED getVars
  /\ UNCHANGED <<otherVars, inputVars, runVars, resp, histVars, outfile, error>>

\* get_event_type returns the fetched resource
EventTypeFetched ==
  /\ pc = "et_direct"
  /\ et' = resp.resource
  /\ pc' = "check_et"
  /\ UNCHANGED <<otherVars, inputVars, org_uri, since, org_events, st_idx, events, ev_idx, rows,
                 getVars, resp, pgVars, histVars, outfile, error>>

\* get_event_type returns the first listed event type with the slug, or None
EventTypeMatched ==
  /\ pc = "et_list"
  /\ et' = FirstBySlug(pg_out, ident)
  /\ pc' = "check_et"
  /\ UNCHANGED <<otherVars, inputVars, org_uri, since, org_events, st_idx, events, ev_idx, rows,
                 getVars, resp, pgVars, histVars, outfile, error>>

\* mutant of RunCheckEventType: an unresolved event type ends the run with
\* an empty file
RunCheckEventTypeEmptyFile ==
  /\ pc = "check_et"
  /\ IF et = NoneDict
     THEN /\ pc' = "exit"
          /\ error' = "No event-type found in this org"
          /\ outfile' = [name |-> ident, rows |-> <<>>]
          /\ UNCHANGED <<since, org_events, st_idx>>
     ELSE /\ since' = MaxTime - days
          /\ org_events' = <<>>
          /\ st_idx' = 1
          /\ pc' = "ev_loop"
          /\ UNCHANGED <<error, outfile>>
  /\ UNCHANGED <<otherVars, inputVars, org_uri, et, events, ev_idx, rows,
                 getVars, resp, pgVars, histVars>>

\* run: `if not et`, the window, and the call of list_org_events
RunCheckEventType ==
  /\ pc = "check_et"
  /\ IF et = NoneDict
     THEN /\ pc' = "exit"
          /\ error' = "No event-type found in this org"
          /\ UNCHANGED <<since, org_events, st_idx>>
     ELSE /\ since' = MaxTime - days
          /\ org_events' = <<>>
          /\ st_idx' = 1
          /\ pc' = "ev_loop"
          /\ UNCHANGED error
  /\ UNCHANGED <<otherVars, inputVars, org_uri, et, events, ev_idx, rows,
                 getVars, resp, pgVars, histVars, outfile>>

\* list_org_events: `for status in ("active", "canceled")`; after the loop
\* run filters what it returned
ListOrgEvents ==
  /\ pc = "ev_loop"
  /\ IF st_idx <= Len(STATUSES)
     THEN /\ CallPaginate(UrlJoin(BASE, P_SCHEDULED_EVENTS),
                          OrgEventParams(org_uri, STATUSES[st_idx], IsoFormat(since) \o <<"Z">>),
                          "ev_page")
          /\ UNCHANGED <<events, ev_idx, rows>>
     ELSE /\ events' = MatchingEvents(org_events, et.uri)
          /\ ev_idx' = 1
          /\ rows' = <<>>
          /\ pc' = "iv_loop"
          /\ UNCHANGED pgVars
  /\ UNCHANGED <<otherVars, inputVars, org_uri, et, since, org_events, st_idx,
                 getVars, resp, histVars, outfile, error>>

\* list_org_events: events += _paginate(...)
ListOrgEventsExtend ==
  /\ pc = "ev_page"
  /\ org_events' = org_events \o pg_out
  /\ st_idx' = st_idx + 1
  /\ pc' = "ev_loop"
  /\ UNCHANGED <<otherVars, inputVars, org_uri, et, since, events, ev_idx, rows,
                 getVars, resp, pgVars, histVars, outfile, error>>

\* mutant of RunInvitees: nothing is saved when there are no rows
RunInviteesSkipEmpty ==
  /\ pc = "iv_loop"
  /\ IF ev_idx <= Len(events)
     THEN /\ CallPaginate(IvListUrl(LastSegment(events[ev_idx].uri)), InviteeParams, "iv_page")
          /\ UNCHANGED outfile
     ELSE /\ IF rows = <<>> THEN UNCHANGED outfile
             ELSE outfile' = [name |-> et.slug, rows |-> rows]
          /\ pc' = "done"
          /\ UNCHANGED pgVars
  /\ UNCHANGED <<otherVars, inputVars, runVars, getVars, resp, histVars, error>>

\* run: `for ev in events`, calling list_invitees; after the loop the
\* DataFrame of rows is written to invitees_<slug>.csv
RunInvitees ==
  /\ pc = "iv_loop"
  /\ IF ev_idx <= Len(events)
     THEN /\ CallPaginate(IvListUrl(LastSegment(events[ev_idx].uri)), InviteeParams, "iv_page")
          /\ UNCHANGED outfile
     ELSE /\ outfile' = [name |-> et.slug, rows |-> rows]
          /\ pc' = "done"
          /\ UNCHANGED pgVars
  /\ UNCHANGED <<otherVars, inputVars, runVars, getVars, resp, histVars, error>>

\* run: one row per invitee of the event; a KeyError ends the run
RunAppendRows ==
  /\ pc = "iv_page"
  /\ LET ev == events[ev_idx]
         ev_uuid == LastSegment(ev.uri)
         bad == {i \in 1..Len(pg_out) : FlattenRaises(ev, pg_out[i])}
         good == IF bad = {} THEN Len(pg_out)
                 ELSE (CHOOSE i \in bad : \A j \in bad : i <= j) - 1
     IN  /\ rows' = rows \o [i \in 1..good |-> Flatten(ev_uuid, ev, pg_out[i])]
         /\ IF bad = {}
            THEN /\ ev_idx' = ev_idx + 1
                 /\ pc' = "iv_loop"
                 /\ UNCHANGED error
            ELSE /\ pc' = "raised"
                 /\ error' = "KeyError"
                 /\ UNCHANGED ev_idx
  /\ UNCHANGED <<otherVars, inputVars, org_uri, et, since, org_events, st_idx, events,
                 getVars, resp, pgVars, histVars, outfile>>

\* the other programs are not running
FlattenIdle ==
  f_pc = "idle" /\ f_ev = NoneDict /\ f_iv = NoneDict /\ f_row = <<>> /\ f_err = "-"
MatchIdle ==
  /\ d_pc = "idle"
  /\ csv_monday = <<>> /\ csv_ceint = <<>> /\ csv_ce = <<>>
  /\ monday_df = <<>> /\ calendly_df = <<>> /\ matched_df = <<>>
  /\ d_file = NoFile /\ d_err = "-"
MondayIdle ==
  /\ m_pc = "idle"
  /\ m_key = None /\ m_board = <<>> /\ m_groups = <<>> /\ m_idx = 0
  /\ m_dataframes = <<>> /\ m_log = <<>> /\ m_file = NoFile /\ m_err = "-"

Next ==
  \/ RunStart
  \/ CurrentUserAndOrg
  \/ GetEventType
  \/ EventTypeFetched
  \/ EventTypeMatched
  \/ RunCheckEventType
  \/ ListOrgEvents
  \/ ListOrgEventsExtend
  \/ RunInvitees
  \/ RunAppendRows
  \/ PaginateLoop
  \/ PaginateExtend
  \/ GetOk
  \/ GetTimeout
  \/ GetError

Init == ExportInit /\ FlattenIdle /\ MatchIdle /\ MondayIdle

Spec == Init /\ [][Next]_vars

(* ---------------------------------------------------------------------- *)
(* Properties of the invitee export                                       *)
(* ---------------------------------------------------------------------- *)

\* the chain of pages the server holds behind an address: each page with
\* the address it is fetched from, following the cursors until a page
\* carries none
\* a page carries a cursor when its pagination object names a next page
CarriesCursor(p) ==
  /\ "pagination" \in DOMAIN p
  /\ "next_page" \in DOMAIN p.pagination
  /\ p.pagination.next_page # None
  /\ p.pagination.next_page # <<>>

RECURSIVE ChainFrom(_, _)
ChainFrom(url, params) ==
  LET p == Respond(url, params, 3)
  IN  <<[url |-> url, collection |-> p.collection]>>
        \o (IF CarriesCursor(p) THEN ChainFrom(p.pagination.next_page, NoneDict) ELSE <<>>)

RECURSIVE ConcatCollections(_)
ConcatCollections(chain) ==
  IF chain = <<>> THEN <<>>
  ELSE Head(chain).collection \o ConcatCollections(Tail(chain))

IsOk(r) == r.outcome = "ok"
IsTimeout(r) == r.outcome = "timeout"
\* the requests issued after the first `mark` ones
RequestsSince(mark) == SubSeq(log, mark + 1, Len(log))

\* _paginate has just returned to its caller
PaginateReturned == pc \in {"et_list", "ev_page", "iv_page"}

\* C1: when _paginate returns, its result is the concatenation, in page
\* order and in within-page order, of the collections of the N pages chained
\* behind its address, and it made exactly N successful requests, the i-th
\* of them addressed to the i-th page.
C1_PaginateConcatenatesChain ==
  PaginateReturned =>
    LET chain == ChainFrom(pg_call.url, pg_call.params)
        oks   == SelectSeq(RequestsSince(pg_call.mark), IsOk)
    IN  /\ pg_out = ConcatCollections(chain)
        /\ Len(oks) = Len(chain)
        /\ \A i \in 1..Len(chain) : oks[i].url = chain[i].url

\* a pagination over two pages, with a retried timeout on the way, returned
\* three records
C1_Witness ==
  /\ PaginateReturned
  /\ Len(ChainFrom(pg_call.url, pg_call.params)) = 2
  /\ Len(pg_out) = 3
  /\ \E i \in pg_call.mark + 1 .. Len(log) : IsTimeout(log[i])

\* the requests of the latest _get call: from the last first attempt on
LastCall ==
  SubSeq(log, Max({i \in 1..Len(log) : log[i].attempt = 1}), Len(log))

\* C2: a _get call all of whose attempts so far timed out is either still
\* retrying, with fewer than MAX_RETRIES requests issued, or has raised the
\* timeout after exactly MAX_RETRIES requests; no request is ever a 4th attempt.
C2_TimeoutRaisesAfterMaxRetries ==
  /\ \A i \in 1..Len(log) : log[i].attempt <= MAX_RETRIES
  /\ (log # <<>> /\ \A i \in 1..Len(LastCall) : IsTimeout(LastCall[i])) =>
       \/ /\ pc = "get"
          /\ Len(LastCall) < MAX_RETRIES
          /\ attempt = Len(LastCall) + 1
       \/ /\ pc = "raised"
          /\ error = "ReadTimeout"
          /\ Len(LastCall) = MAX_RETRIES
          /\ \A i \in 1..MAX_RETRIES :
               /\ LastCall[i].attempt = i
               /\ LastCall[i].url = LastCall[1].url
               /\ LastCall[i].params = LastCall[1].params

\* a call inside a pagination timed out three times and raised
C2_Witness ==
  /\ pc = "raised"
  /\ error = "ReadTimeout"
  /\ Len(LastCall) = 3
  /\ Len(log) > 3
  /\ pg_call # NoneDict

\* C3: a request that fails otherwise than by a read timeout is the last
\* request of the run, whatever its attempt number: the failure is raised out
\* of _get, _paginate and run, and no file is written.
C3_OtherFailureAbortsRun ==
  \A i \in 1..Len(log) :
    log[i].outcome = "error" =>
      /\ i = Len(log)
      /\ pc = "raised"
      /\ error \in {"HTTPError", "ConnectionError"}
      /\ outfile = NoFile

\* the second attempt of a page request inside _paginate failed with an
\* HTTP error after records had been collected
C3_Witness ==
  /\ pc = "raised"
  /\ error = "HTTPError"
  /\ log[Len(log)].outcome = "error"
  /\ log[Len(log)].attempt = 2
  /\ pg_out # <<>>

\* the identifier forms of the dispatch rule
FullUri(id) == Len(id) >= Len(HTTPS) /\ \A i \in 1..Len(HTTPS) : id[i] = HTTPS[i]
HexUpper == {"A","B","C","D","E","F"}
HexHyphen36(id) ==
  Len(id) = 36 /\ \A i \in 1..Len(id) : id[i] \in HexLower \cup HexUpper \cup {"-"}
LowerHexHyphen36(id) ==
  Len(id) = 36 /\ \A i \in 1..Len(id) : id[i] \in HexLower \cup {"-"}

\* a request of the org-scoped event-type listing (first page or cursor)
IsEtListRequest(r) == ListBaseOf(r.url) = UrlJoin(BASE, P_EVENT_TYPES)
\* a request for a single resource other than users/me
IsDirectFetch(r) == r.params = EmptyDict /\ r.url # UrlJoin(BASE, P_USERS_ME)
\* get_event_type has returned
Resolved == pc = "check_et" \/ et # NoneDict
OkRequestsTo(url) == {i \in 1..Len(log) : IsOk(log[i]) /\ log[i].url = url}

\* the dispatch rule, for a given reading of "hex-hyphen"
DispatchRule(HexForm(_)) ==
  CASE FullUri(ident) ->
         /\ \A i \in 1..Len(log) : ~IsEtListRequest(log[i])
         /\ \A i \in 1..Len(log) : IsDirectFetch(log[i]) => log[i].url = ident
         /\ Resolved => Cardinality(OkRequestsTo(ident)) = 1
    [] ~FullUri(ident) /\ HexForm(ident) ->
         /\ \A i \in 1..Len(log) : ~IsEtListRequest(log[i])
         /\ \A i \in 1..Len(log) :
              IsDirectFetch(log[i]) => log[i].url = UrlJoin(BASE, P_EVENT_TYPES \o <<"/">> \o ident)
         /\ Resolved =>
              Cardinality(OkRequestsTo(UrlJoin(BASE, P_EVENT_TYPES \o <<"/">> \o ident))) = 1
    [] OTHER ->
         /\ \A i \in 1..Len(log) : ~IsDirectFetch(log[i])
         /\ Resolved =>
              /\ Cardinality(OkRequestsTo(UrlJoin(BASE, P_EVENT_TYPES))) = 1
              /\ \A i \in 1..Len(log) :
                   IsEtListRequest(log[i]) /\ ~IsCursor(log[i].url) =>
                     log[i].params = [organization |-> ORG_URI, count |-> COUNT]

\* C4 as stated: a full URI is fetched directly and never listed; any
\* 36-character string of hex digits and hyphens is fetched directly as
\* event_types/<identifier> and never listed; every other identifier is
\* resolved by exactly one listing of the organisation's event types and no
\* direct fetch.
C4_Original_DispatchAnyHex == DispatchRule(HexHyphen36)

\* C4 amended: the direct fetch by identifier is for 36-character strings of
\* lower-case hex digits and hyphens only; an identifier with upper-case hex
\* digits is resolved as a short name.
C4_DispatchLowerHex == DispatchRule(LowerHexHyphen36)

\* a lower-case 36-character identifier was resolved by one direct fetch
C4_Witness ==
  /\ pc = "check_et"
  /\ ident = ID_UUID
  /\ et = ET_C
  /\ Cardinality(OkRequestsTo(UrlJoin(BASE, P_EVENT_TYPES \o <<"/">> \o ident))) = 1

\* C5: no event that starts before `since` is among the events that
\* list_org_events collects, whatever its status.
C5_NoEventBeforeSince ==
  \A i \in 1..Len(org_events) : ParseTime(org_events[i].start_time) >= since

\* list_org_events returned active and canceled events while the
\* organisation holds earlier events of both statuses
C5_Witness ==
  /\ pc = "ev_loop"
  /\ st_idx > Len(STATUSES)
  /\ \E i \in 1..Len(org_events) : org_events[i].status = "active"
  /\ \E i \in 1..Len(org_events) : org_events[i].status = "canceled"
  /\ \E i \in 1..Len(ScheduledEvents) :
       /\ ScheduledEvents[i].status = "active"
       /\ ParseTime(ScheduledEvents[i].start_time) < since
  /\ \E i \in 1..Len(ScheduledEvents) :
       /\ ScheduledEvents[i].status = "canceled"
       /\ ParseTime(ScheduledEvents[i].start_time) < since

\* C9: without a credential the run ends at the credential check: no
\* request is ever issued and no file is written.
C9_NoCredentialNoRequest ==
  ~Truthy(TOKEN) =>
    /\ log = <<>>
    /\ outfile = NoFile
    /\ \/ pc = "start"
       \/ pc = "exit" /\ error = "CALENDLY_API_KEY must be set"

\* the run was started with an empty credential and has exited
C9_Witness == pc = "exit" /\ TOKEN = <<>> /\ log = <<>>

(* ---------------------------------------------------------------------- *)
(* The row literal of run as a function of one event and one invitee      *)
(* ---------------------------------------------------------------------- *)

FlatKeys == {"uri", "status", "invitee_email", "end_time", "question_1"}
FlatUri == IvUri(<<"e","1">>, <<"i","9">>)
FlatText == <<"v">>

\* invitee payloads: any subset of the keys; uri holds a reference, the
\* other keys hold a text or null
FlatInvitees ==
  {r \in UNION {[S -> {None, FlatText, FlatUri}] : S \in SUBSET FlatKeys} :
     \A k \in DOMAIN r : (k = "uri") <=> (r[k] = FlatUri)}

FlatEvents == {ScheduledEvents[1], ScheduledEvents[5]}

FlattenInit ==
  /\ f_pc = "start"
  /\ f_ev \in FlatEvents
  /\ f_iv \in FlatInvitees
  /\ f_row = <<>>
  /\ f_err = "-"

\* rows.append({...}) for one invitee of one event
FlattenRow ==
  /\ f_pc = "start"
  /\ IF FlattenRaises(f_ev, f_iv)
     THEN f_err' = "KeyError" /\ f_row' = <<>>
     ELSE f_err' = "-" /\ f_row' = Flatten(LastSegment(f_ev.uri), f_ev, f_iv)
  /\ f_pc' = "done"
  /\ UNCHANGED <<f_ev, f_iv, exportVars, matchVars, mondayVars>>

InitFlatten == FlattenInit /\ ExportIdle /\ MatchIdle /\ MondayIdle

SpecFlatten == InitFlatten /\ [][FlattenRow]_vars

\* the invitee fields of the row literal, by position
InviteeField(i) == FIELD_MAP[i].kind \in {"get", "uri_tail"}

MaxRows == 2

\* DATE_RANGE of main
START_DATE == <<"2","0","2","5","-","0","6","-","0","1">>
END_DATE == <<"2","0","2","5","-","0","6","-","2","5">>

\* characters of a timestamp text in code-point order
CodePoints == <<" ","-","0","1","2","3","4","5","6","7","8","9",":","T","Z">>
Ord(c) == CHOOSE i \in 1..Len(CodePoints) : CodePoints[i] = c

\* mutant of StrLE: a < b
RECURSIVE StrLT(_, _)
StrLT(a, b) ==
  IF b = <<>> THEN FALSE
  ELSE IF a = <<>> THEN TRUE
  ELSE IF Ord(Head(a)) < Ord(Head(b)) THEN TRUE
  ELSE IF Ord(Head(a)) > Ord(Head(b)) THEN FALSE
  ELSE StrLT(Tail(a), Tail(b))

\* a <= b for two str, as Python compares them
RECURSIVE StrLE(_, _)
StrLE(a, b) ==
  IF a = <<>> THEN TRUE
  ELSE IF b = <<>> THEN FALSE
  ELSE IF Ord(Head(a)) < Ord(Head(b)) THEN TRUE
  ELSE IF Ord(Head(a)) > Ord(Head(b)) THEN FALSE
  ELSE StrLE(Tail(a), Tail(b))

\* NaT
NaT == -1
\* days before the first of each month
DaysBefore == <<0, 31, 59, 90, 120, 151, 181, 212, 243, 273, 304, 334>>
Num2(s, i) == 10 * Undigit(s[i]) + Undigit(s[i + 1])
\* pd.to_datetime / pd.Timestamp of "YYYY-MM-DD" or "YYYY-MM-DDTHH:MM:SSZ":
\* the instant in seconds since 2025-01-01T00:00:00Z; null gives NaT
ToDatetime(s) ==
  IF s = None THEN NaT
  ELSE LET year  == 100 * Num2(s, 1) + Num2(s, 3)
           dayno == (year - 2025) * 365 + DaysBefore[Num2(s, 6)] + Num2(s, 9) - 1
           clock == IF Len(s) >= 19
                    THEN 3600 * Num2(s, 12) + 60 * Num2(s, 15) + Num2(s, 18) ELSE 0
       IN  dayno * 86400 + clock

Column(df, col) == [i \in 1..Len(df) |-> df[i][col]]
\* the dtype read_csv / concat gives a column
Dtype(column) ==
  IF Len(column) > 0 /\ \A i \in 1..Len(column) : column[i] = None
  THEN "float64" ELSE "object"

\* mutant of FilterByText: no row is dropped
FilterByTextAll(df, col, start_date, end_date) == df

\* df[(df[col] >= start_date) & (df[col] <= end_date)] on a column of str:
\* a null compares False
FilterByText(df, col, start_date, end_date) ==
  LET keep(r) == /\ r[col] # None
                 /\ StrLE(start_date, r[col])
                 /\ StrLE(r[col], end_date)
  IN  SelectSeq(df, keep)

\* the same on a datetime column, the bounds parsed as timestamps: NaT
\* compares False
FilterByTime(df, col, start_date, end_date) ==
  LET keep(r) == /\ r[col] # NaT
                 /\ ToDatetime(start_date) <= r[col]
                 /\ r[col] <= ToDatetime(end_date)
  IN  SelectSeq(df, keep)

\* df_combined['event_start'] = pd.to_datetime(df_combined['event_start'])
ParseEventStart(r) == [r EXCEPT !["event_start"] = ToDatetime(@)]

\* pandas merges equal keys, and a null key with a null key
KeyEq(a, b) == a = b

\* a merged row: the columns of both rows
MergeRow(a, b) == a @@ b

RECURSIVE InnerJoinFrom(_, _, _, _, _)
InnerJoinFrom(left, right, left_on, right_on, i) ==
  IF i > Len(left) THEN <<>>
  ELSE LET same(b) == KeyEq(left[i][left_on], b[right_on])
           hits == SelectSeq(right, same)
       IN  [j \in 1..Len(hits) |-> MergeRow(left[i], hits[j])]
             \o InnerJoinFrom(left, right, left_on, right_on, i + 1)

\* pd.merge(left, right, left_on=..., right_on=..., how='inner')
InnerJoin(left, right, left_on, right_on) ==
  InnerJoinFrom(left, right, left_on, right_on, 1)

\* pd.merge refuses to merge a float64 key column (only nulls) with an
\* object key column that holds text or has no rows
MergeRaises(left, ldtype, right, rdtype, left_on, right_on) ==
  LET textual(df, col) == Len(df) = 0 \/ \E i \in 1..Len(df) : df[i][col] # None
  IN  \/ ldtype = "float64" /\ rdtype = "object" /\ textual(right, right_on)
      \/ ldtype = "object" /\ rdtype = "float64" /\ textual(left, left_on)

EMAIL_A == <<"a","@","x">>
EMAIL_A_UPPER == <<"A","@","x">>
EMAIL_B == <<"b","@","x">>

MondayRow(email, created) == ("Email" :> email) @@ ("Date Created" :> created)
CalendlyRow(email, start) == ("invitee_email" :> email) @@ ("event_start" :> start)

\* rows a Monday export may hold
MondayRows ==
  { MondayRow(EMAIL_A, START_DATE),
    MondayRow(EMAIL_A, END_DATE),
    MondayRow(EMAIL_A, <<"2","0","2","5","-","0","6","-","2","6">>),
    MondayRow(EMAIL_B, <<"2","0","2","5","-","0","5","-","3","1">>),
    MondayRow(None, END_DATE),
    MondayRow(EMAIL_A, None) }

\* rows an invitee export may hold
CalendlyRows ==
  { CalendlyRow(EMAIL_A, <<"2","0","2","5","-","0","6","-","0","1","T","0","0",":","0","0",":","0","0","Z">>),
    CalendlyRow(EMAIL_A, <<"2","0","2","5","-","0","6","-","2","5","T","0","0",":","0","0",":","0","0","Z">>),
    CalendlyRow(EMAIL_A, <<"2","0","2","5","-","0","6","-","2","5","T","0","0",":","0","0",":","0","1","Z">>),
    CalendlyRow(None, <<"2","0","2","5","-","0","6","-","1","0","T","1","5",":","3","0",":","0","0","Z">>) }
CalendlyRowsCe ==
  { CalendlyRow(EMAIL_A_UPPER, <<"2","0","2","5","-","0","6","-","1","0","T","1","5",":","3","0",":","0","0","Z">>),
    CalendlyRow(EMAIL_B, <<"2","0","2","5","-","0","5","-","3","1","T","2","3",":","5","9",":","5","9","Z">>),
    CalendlyRow(EMAIL_A, None) }

SeqsUpTo(S, n) == UNION {[1..k -> S] : k \in 0..n}

MatchInit ==
  /\ d_pc = "start"
  /\ csv_monday \in SeqsUpTo(MondayRows, MaxRows)
  /\ csv_ceint \in SeqsUpTo(CalendlyRows, MaxRows)
  /\ csv_ce \in SeqsUpTo(CalendlyRowsCe, 1)
  /\ monday_df = <<>>
  /\ calendly_df = <<>>
  /\ matched_df = <<>>
  /\ d_file = NoFile
  /\ d_err = "-"

matchInputs == <<csv_monday, csv_ceint, csv_ce>>

\* main: monday_df = matcher.load_monday_data(start, end, SORT_COLUMNS);
\* comparing a float64 column with a str raises TypeError, which main prints
LoadMondayData ==
  /\ d_pc = "start"
  /\ IF Dtype(Column(csv_monday, "Date Created")) = "float64"
     THEN /\ d_err' = "TypeError"
          /\ d_pc' = "failed"
          /\ UNCHANGED monday_df
     ELSE /\ monday_df' = FilterByText(csv_monday, "Date Created", START_DATE, END_DATE)
          /\ d_pc' = "monday_loaded"
          /\ UNCHANGED d_err
  /\ UNCHANGED <<matchInputs, calendly_df, matched_df, d_file, exportVars, flatVars, mondayVars>>

\* main: calendly_df = matcher.load_calendly_data(start, end)
LoadCalendlyData ==
  /\ d_pc = "monday_loaded"
  /\ LET df_combined == csv_ceint \o csv_ce
         parsed == [i \in 1..Len(df_combined) |-> ParseEventStart(df_combined[i])]
     IN  calendly_df' = FilterByTime(parsed, "event_start", START_DATE, END_DATE)
  /\ d_pc' = "calendly_loaded"
  /\ UNCHANGED <<matchInputs, monday_df, matched_df, d_file, d_err, exportVars, flatVars, mondayVars>>

\* main: matched_df = matcher.match_data(monday_df, calendly_df)
MatchData ==
  /\ d_pc = "calendly_loaded"
  /\ IF MergeRaises(calendly_df, Dtype(Column(csv_ceint \o csv_ce, "invitee_email")),
                    monday_df, Dtype(Column(csv_monday, "Email")),
                    "invitee_email", "Email")
     THEN /\ d_err' = "ValueError"
          /\ d_pc' = "failed"
          /\ UNCHANGED matched_df
     ELSE /\ matched_df' = InnerJoin(calendly_df, monday_df, "invitee_email", "Email")
          /\ d_pc' = "matched"
          /\ UNCHANGED d_err
  /\ UNCHANGED <<matchInputs, monday_df, calendly_df, d_file, exportVars, flatVars, mondayVars>>

\* main: output_path = matcher.save_results(matched_df)
SaveResults ==
  /\ d_pc = "matched"
  /\ d_file' = [rows |-> matched_df]
  /\ d_pc' = "saved"
  /\ UNCHANGED <<matchInputs, monday_df, calendly_df, matched_df, d_err, exportVars, flatVars, mondayVars>>

MatchNext == LoadMondayData \/ LoadCalendlyData \/ MatchData \/ SaveResults

InitMatch == MatchInit /\ ExportIdle /\ FlattenIdle /\ MondayIdle

SpecMatch == InitMatch /\ [][MatchNext]_vars

\* the rows of a DataFrame that equal r
Occurrences(df, r) == Cardinality({i \in 1..Len(df) : df[i] = r})

\* two join keys are equal strings
StringEq(a, b) == a # None /\ b # None /\ a = b
\* the pairs (rowA, rowB) of the filtered datasets with equal string keys
MatchingPairs ==
  {p \in (1..Len(calendly_df)) \X (1..Len(monday_df)) :
     StringEq(calendly_df[p[1]]["invitee_email"], monday_df[p[2]]["Email"])}

\* C6: match_data returns one Matched Row for every pair (rowA, rowB) whose
\* keys are equal strings, and nothing else: as many rows as there are such
\* pairs, each merged row as often as pairs produce it.
C6_InnerJoinOnStringEquality ==
  d_pc = "matched" =>
    /\ Len(matched_df) = Cardinality(MatchingPairs)
    /\ \A p \in MatchingPairs :
         LET row == MergeRow(calendly_df[p[1]], monday_df[p[2]])
         IN  Occurrences(matched_df, row) =
               Cardinality({q \in MatchingPairs :
                              MergeRow(calendly_df[q[1]], monday_df[q[2]]) = row})

\* the day after END_DATE, in the text form of the Monday export
END_DATE_NEXT == <<"2","0","2","5","-","0","6","-","2","6">>

\* load_monday_data / load_calendly_data has returned
MondayLoaded == d_pc \notin {"start", "idle"} /\ d_err # "TypeError"
CalendlyLoaded == d_pc \in {"calendly_loaded", "matched", "saved"} \/ d_err = "ValueError"

\* C7: in both filters a row exactly at the upper boundary is kept, a row
\* one unit beyond it (the next day of a Monday date, the next second of a
\* Calendly timestamp) is dropped, and a row exactly at the lower boundary
\* is kept.
C7_DateRangeBoundsInclusive ==
  /\ MondayLoaded =>
       \A i \in 1..Len(csv_monday) :
         LET r == csv_monday[i]
         IN  /\ r["Date Created"] = END_DATE => Occurrences(monday_df, r) > 0
             /\ r["Date Created"] = START_DATE => Occurrences(monday_df, r) > 0
             /\ r["Date Created"] = END_DATE_NEXT => Occurrences(monday_df, r) = 0
  /\ CalendlyLoaded =>
       \A i \in 1..Len(csv_ceint \o csv_ce) :
         LET r == ParseEventStart((csv_ceint \o csv_ce)[i])
         IN  /\ r["event_start"] = ToDatetime(END_DATE) => Occurrences(calendly_df, r) > 0
             /\ r["event_start"] = ToDatetime(START_DATE) => Occurrences(calendly_df, r) > 0
             /\ r["event_start"] = ToDatetime(END_DATE) + 1 => Occurrences(calendly_df, r) = 0

\* both datasets held a row at the upper boundary and a row one unit
\* beyond it, and both were filtered
C7_Witness ==
  /\ d_pc = "calendly_loaded"
  /\ \E i \in 1..Len(csv_monday) : csv_monday[i]["Date Created"] = END_DATE
  /\ \E i \in 1..Len(csv_monday) : csv_monday[i]["Date Created"] = END_DATE_NEXT
  /\ \E i \in 1..Len(csv_ceint) : ToDatetime(csv_ceint[i]["event_start"]) = ToDatetime(END_DATE)
  /\ \E i \in 1..Len(csv_ceint) : ToDatetime(csv_ceint[i]["event_start"]) = ToDatetime(END_DATE) + 1
  /\ Len(monday_df) = 1
  /\ Len(calendly_df) = 1

(* ---------------------------------------------------------------------- *)
(* utility_scripts/download_data_monday.py: the Monday export             *)
(* ---------------------------------------------------------------------- *)

\* MondayConfig.GROUP_MAPPING, in the order of its items()
GROUP_MAPPING ==
  << <<"topics", "scheduled">>,
     <<"new_group34578__1", "unqualified">>,
     <<"new_group27351__1", "won">>,
     <<"new_group54376__1", "cancelled">>,
     <<"new_group64021__1", "noshow">>,
     <<"new_group65903__1", "proposal">>,
     <<"new_group62617__1", "lost">> >>

\* MondayConfig.COLUMN_MAPPING
COLUMN_MAPPING ==
  << <<"name", "Name">>,
     <<"auto_number__1", "Auto number">>,
     <<"person", "Owner">>,
     <<"last_updated__1", "Last updated">>,
     <<"link__1", "Linkedin">>,
     <<"phone__1", "Phone">>,
     <<"email__1", "Email">>,
     <<"text7__1", "Company">>,
     <<"date4", "Sales Call Date">>,
     <<"status9__1", "Follow Up Tracker">>,
     <<"notes__1", "Notes">>,
     <<"interested_in__1", "Interested In">>,
     <<"status4__1", "Plan Type">>,
     <<"numbers__1", "Deal Value">>,
     <<"status6__1", "Email Template #1">>,
     <<"dup__of_email_template__1", "Email Template #2">>,
     <<"status__1", "Deal Status">>,
     <<"status2__1", "Send Panda Doc?">>,
     <<"utm_source__1", "UTM Source">>,
     <<"date__1", "Deal Status Date">>,
     <<"utm_campaign__1", "UTM Campaign">>,
     <<"utm_medium__1", "UTM Medium">>,
     <<"utm_content__1", "UTM Content">>,
     <<"link3__1", "UTM LINK">>,
     <<"lead_source8__1", "Lead Source">>,
     <<"color__1", "Channel FOR FUNNEL METRICS">>,
     <<"subitems__1", "Subitems">>,
     <<"date5__1", "Date Created">> >>

\* a missing cell of a DataFrame
NaN == "<NaN>"

\* pd.DataFrame()
EmptyFrame == [columns |-> <<>>, data |-> <<>>]

\* df.empty
FrameEmpty(df) == Len(df.columns) = 0 \/ Len(df.data) = 0

Elements(s) == {s[i] : i \in 1..Len(s)}

\* _items_to_dataframe: the cell of `item` under header h
ItemCell(item, h) ==
  IF h = "Item ID" THEN item.id
  ELSE IF h = "Item Name" THEN item.name
  ELSE IF "column_values" \notin DOMAIN item THEN NaN
  ELSE LET cv == item.column_values
           at == {k \in 1..Len(cv) : cv[k].id = h}
       IN  IF at = {} THEN NaN
           ELSE LET column == cv[Max(at)]
                IN  IF "text" \in DOMAIN column THEN column.text ELSE ""

\* _items_to_dataframe
ItemsToDataframe(items) ==
  IF Len(items) = 0 THEN EmptyFrame
  ELSE IF "column_values" \notin DOMAIN items[1] \/ Len(items[1].column_values) = 0
  THEN EmptyFrame
  ELSE LET cv == items[1].column_values
           column_ids == [k \in 1..Len(cv) |-> cv[k].id]
           headers == <<"Item ID", "Item Name">> \o column_ids
       IN  [columns |-> headers,
            data |-> [i \in 1..Len(items) |->
                        [h \in Elements(headers) |-> ItemCell(items[i], h)]]]

\* df.rename(columns=COLUMN_MAPPING): the new name of one column
RenameColumn(c) ==
  LET at == {k \in 1..Len(COLUMN_MAPPING) : COLUMN_MAPPING[k][1] = c}
  IN  IF at = {} THEN c ELSE COLUMN_MAPPING[CHOOSE k \in at : TRUE][2]

\* df.rename(columns=COLUMN_MAPPING, inplace=True)
Rename(df) ==
  LET old(n) == CHOOSE c \in Elements(df.columns) : RenameColumn(c) = n
      columns == [k \in 1..Len(df.columns) |-> RenameColumn(df.columns[k])]
  IN  [columns |-> columns,
       data |-> [i \in 1..Len(df.data) |->
                   [n \in Elements(columns) |-> df.data[i][old(n)]]]]

\* df_copy['Group'] = group_name
WithGroup(df, group_name) ==
  [columns |-> IF "Group" \in Elements(df.columns) THEN df.columns
               ELSE Append(df.columns, "Group"),
   data |-> [i \in 1..Len(df.data) |->
               [n \in Elements(df.columns) \cup {"Group"} |->
                  IF n = "Group" THEN group_name ELSE df.data[i][n]]]]

\* main: master_data, the non-empty frames of dataframes.items() with
\* their Group column
RECURSIVE MasterData(_)
MasterData(dataframes) ==
  IF dataframes = <<>> THEN <<>>
  ELSE LET group_name == Head(dataframes)[1]
           df == Head(dataframes)[2]
       IN  (IF FrameEmpty(df) THEN <<>> ELSE <<WithGroup(df, group_name)>>)
             \o MasterData(Tail(dataframes))

\* pd.concat: the columns of the frames in the order they first appear
RECURSIVE ConcatColumns(_)
ConcatColumns(frames) ==
  IF frames = <<>> THEN <<>>
  ELSE LET before == ConcatColumns(SubSeq(frames, 1, Len(frames) - 1))
           new(c) == c \notin Elements(before)
       IN  before \o SelectSeq(frames[Len(frames)].columns, new)

\* pd.concat: the rows of the frames, one after the other
RECURSIVE ConcatData(_, _)
ConcatData(frames, columns) ==
  IF frames = <<>> THEN <<>>
  ELSE LET df == Head(frames)
           wide(r) == [n \in Elements(columns) |->
                         IF n \in Elements(df.columns) THEN r[n] ELSE NaN]
       IN  [i \in 1..Len(df.data) |-> wide(df.data[i])]
             \o ConcatData(Tail(frames), columns)

\* pd.concat(master_data, ignore_index=True)
Concat(frames) ==
  [columns |-> ConcatColumns(frames),
   data |-> ConcatData(frames, ConcatColumns(frames))]

\* the items fetch_items_recursive returns for a group
Item(id, name, column_values) ==
  [id |-> id, name |-> name, column_values |-> column_values]
ItemsOf(group_id) ==
  CASE group_id = "topics" ->
         << Item("1", "Ann", << [id |-> "email__1", text |-> "a@x"],
                                [id |-> "date5__1", text |-> "2025-06-01"] >>),
            Item("2", "Bob", << [id |-> "email__1"] >>) >>
    [] group_id = "new_group27351__1" ->
         << Item("3", "Cy", << [id |-> "numbers__1", text |-> "5"] >>) >>
    [] group_id = "new_group54376__1" ->
         << [id |-> "4", name |-> "Di"] >>
    [] OTHER -> <<>>

\* the boards fetch_groups may describe
Group(id, title) == [id |-> id, title |-> title]
BOARD_FULL == [k \in 1..Len(GROUP_MAPPING) |-> Group(GROUP_MAPPING[k][1], GROUP_MAPPING[k][2])]
BOARD_PART ==
  << Group("new_group27351__1", "Won"), Group("group_x", "Other"), Group("topics", "Scheduled") >>
BOARD_EMPTY_GROUPS ==
  << Group("new_group34578__1", "Unqualified"), Group("new_group54376__1", "Cancelled") >>
Boards == {BOARD_FULL, BOARD_PART, BOARD_EMPTY_GROUPS, <<>>}

\* os.getenv("MONDAY_API_KEY")
ApiKeys == {None, <<>>, <<"k">>}

\* one call of monday_extract_groups
Call(name, group_id, ok) == [call |-> name, group |-> group_id, ok |-> ok]

MondayInit ==
  /\ m_pc = "start"
  /\ m_key \in ApiKeys
  /\ m_board \in Boards
  /\ m_groups = <<>> /\ m_idx = 0
  /\ m_dataframes = <<>> /\ m_log = <<>> /\ m_file = NoFile /\ m_err = "-"

\* main: processor = MondayDataProcessor(config), outside the try
MondayStart ==
  /\ m_pc = "start"
  /\ IF Truthy(m_key)
     THEN m_pc' = "fetch_groups" /\ UNCHANGED m_err
     ELSE m_pc' = "raised" /\ m_err' = "ValueError"
  /\ UNCHANGED <<m_key, m_board, m_groups, m_idx, m_dataframes, m_log, m_file,
                 exportVars, flatVars, matchVars>>

\* fetch_data: groups = fetch_groups(...); a failure is re-raised as
\* RuntimeError, which main reports before sys.exit(1)
FetchGroups ==
  /\ m_pc = "fetch_groups"
  /\ \E ok \in BOOLEAN :
       /\ m_log' = Append(m_log, Call("fetch_groups", "-", ok))
       /\ IF ok
          THEN m_groups' = m_board /\ m_idx' = 1 /\ m_pc' = "loop" /\ UNCHANGED m_err
          ELSE m_err' = "RuntimeError" /\ m_pc' = "exit" /\ UNCHANGED <<m_groups, m_idx>>
  /\ UNCHANGED <<m_key, m_board, m_dataframes, m_file, exportVars, flatVars, matchVars>>

\* mutant of ProcessGroup: a failed item fetch ends the run
ProcessGroupAborting ==
  /\ m_pc = "loop"
  /\ m_idx <= Len(GROUP_MAPPING)
  /\ LET group_id == GROUP_MAPPING[m_idx][1]
         group_name == GROUP_MAPPING[m_idx][2]
         found == {k \in 1..Len(m_groups) : m_groups[k].id = group_id}
     IN  IF found = {}
         THEN UNCHANGED <<m_dataframes, m_log, m_pc, m_err>>
         ELSE \E ok \in BOOLEAN :
                /\ m_log' = Append(m_log, Call("fetch_items_recursive", group_id, ok))
                /\ IF ok
                   THEN /\ m_dataframes' =
                             Append(m_dataframes,
                                    <<group_name, Rename(ItemsToDataframe(ItemsOf(group_id)))>>)
                        /\ UNCHANGED <<m_pc, m_err>>
                   ELSE /\ m_pc' = "exit"
                        /\ m_err' = "RuntimeError"
                        /\ UNCHANGED m_dataframes
  /\ m_idx' = m_idx + 1
  /\ UNCHANGED <<m_key, m_board, m_groups, m_file,
                 exportVars, flatVars, matchVars>>

\* fetch_data: one turn of the loop over GROUP_MAPPING.items(), with
\* _process_group: a group the board lacks is skipped, a failed item fetch
\* is reported and skipped
ProcessGroup ==
  /\ m_pc = "loop"
  /\ m_idx <= Len(GROUP_MAPPING)
  /\ LET group_id == GROUP_MAPPING[m_idx][1]
         group_name == GROUP_MAPPING[m_idx][2]
         found == {k \in 1..Len(m_groups) : m_groups[k].id = group_id}
     IN  IF found = {}
         THEN UNCHANGED <<m_dataframes, m_log>>
         ELSE \E ok \in BOOLEAN :
                /\ m_log' = Append(m_log, Call("fetch_items_recursive", group_id, ok))
                /\ IF ok
                   THEN m_dataframes' =
                          Append(m_dataframes,
                                 <<group_name, Rename(ItemsToDataframe(ItemsOf(group_id)))>>)
                   ELSE UNCHANGED m_dataframes
  /\ m_idx' = m_idx + 1
  /\ UNCHANGED <<m_pc, m_key, m_board, m_groups, m_file, m_err,
                 exportVars, flatVars, matchVars>>

\* main, after fetch_data returned: nothing is saved without a non-empty
\* frame, else the frames are concatenated and saved
MondaySave ==
  /\ m_pc = "loop"
  /\ m_idx > Len(GROUP_MAPPING)
  /\ LET master_data == MasterData(m_dataframes)
     IN  IF m_dataframes = <<>> \/ master_data = <<>>
         THEN UNCHANGED m_file
         ELSE m_file' = Concat(master_data)
  /\ m_pc' = "done"
  /\ UNCHANGED <<m_key, m_board, m_groups, m_idx, m_dataframes, m_log, m_err,
                 exportVars, flatVars, matchVars>>

MondayNext == MondayStart \/ FetchGroups \/ ProcessGroup \/ MondaySave

\* one run of either export pipeline
InitExports ==
  /\ \/ ExportInit /\ MondayIdle
     \/ ExportIdle /\ MondayInit
  /\ FlattenIdle
  /\ MatchIdle

NextExports == Next \/ MondayNext

SpecExports == InitExports /\ [][NextExports]_vars

\* every request of the invitee export ended well: none failed, and every
\* timed-out one was sent again
RequestsCompleted ==
  \A i \in 1..Len(log) :
    /\ log[i].outcome # "error"
    /\ log[i].outcome = "timeout" =>
         /\ i < Len(log)
         /\ log[i + 1].url = log[i].url
         /\ log[i + 1].attempt = log[i].attempt + 1

\* the groups whose items were fetched / whose item fetch failed
GroupsFetched == {m_log[i].group : i \in {k \in 1..Len(m_log) : m_log[k].call = "fetch_items_recursive" /\ m_log[k].ok}}
GroupsFailed == {m_log[i].group : i \in {k \in 1..Len(m_log) : m_log[k].call = "fetch_items_recursive" /\ ~m_log[k].ok}}
NameOf(group_id) ==
  GROUP_MAPPING[CHOOSE k \in 1..Len(GROUP_MAPPING) : GROUP_MAPPING[k][1] = group_id][2]

MondayFetchesCompleted == \A i \in 1..Len(m_log) : m_log[i].ok

\* C11 as stated: a pipeline that completed all its fetches with nothing
\* collected still writes an (empty) output file and ends normally.
C11_Original_EmptyResultExported ==
  /\ (pc = "done" /\ rows = <<>>) =>
       outfile # NoFile /\ outfile.rows = <<>> /\ error = "-"
  /\ (m_pc = "done" /\ MondayFetchesCompleted /\ MasterData(m_dataframes) = <<>>) =>
       m_file # NoFile /\ m_err = "-"

\* C11: the invitee export that collected no rows writes a file without
\* rows and ends normally; the Monday export that got no non-empty frame
\* ends normally without writing a file.
C11_EmptyResultExportedByRunOnly ==
  /\ (pc = "done" /\ rows = <<>>) =>
       outfile = [name |-> et.slug, rows |-> <<>>] /\ error = "-"
  /\ (m_pc = "done" /\ MasterData(m_dataframes) = <<>>) =>
       m_file = NoFile /\ m_err = "-"

\* the invitee export found an event of the event type, fetched its
\* invitees, got none, and wrote a file without rows
C11_Witness ==
  /\ pc = "done"
  /\ events # <<>>
  /\ rows = <<>>
  /\ outfile # NoFile
  /\ outfile.rows = <<>>

\* the Monday export fetched two groups without usable items and ended
\* without a file
C11_MondayCase ==
  /\ m_pc = "done"
  /\ MondayFetchesCompleted
  /\ Len(m_dataframes) = 2
  /\ m_file = NoFile

\* run has ended at `if not et`
NotFoundExit == pc = "exit" /\ error = "No event-type found in this org"

\* C12: when get_event_type returned None, run ends at `if not et`: the
\* last request of the run is the answered last page of the event-type
\* listing, no event or invitee listing was ever requested, the listing was
\* walked once, and no file is written.
C12_NotFoundAbortsRun ==
  ((pc = "check_et" /\ et = NoneDict) \/ NotFoundExit) =>
    /\ et = NoneDict
    /\ outfile = NoFile
    /\ org_events = <<>> /\ events = <<>> /\ rows = <<>>
    /\ log # <<>>
    /\ IsOk(log[Len(log)])
    /\ IsEtListRequest(log[Len(log)])
    /\ ~CarriesCursor(Respond(log[Len(log)].url, log[Len(log)].params, 3))
    /\ \A i \in 1..Len(log) :
         \/ log[i].url = UrlJoin(BASE, P_USERS_ME)
         \/ IsEtListRequest(log[i])
    /\ Cardinality(OkRequestsTo(UrlJoin(BASE, P_EVENT_TYPES))) = 1

\* an identifier that differs from a slug only in case was looked up in
\* the two pages of the listing, was not found, and run has exited
C12_Witness ==
  /\ NotFoundExit
  /\ ident = ID_SLUG_CASE
  /\ Len(SelectSeq(log, IsOk)) = 3
  /\ outfile = NoFile

\* the identifier is neither a full URI nor a 36-character lower-case
\* hex-and-hyphen string
ShortName(id) == ~FullUri(id) /\ ~LowerHexHyphen36(id)

\* C13: for a short-name identifier get_event_type has listed every event
\* type of the organisation and returns the one that comes first in
\* pagination order among those whose slug is the identifier, character by
\* character; when there is none it returns None and no error is raised.
C13_FirstExactSlugOrNone ==
  (pc = "check_et" /\ ShortName(ident)) =>
    LET all == ConcatCollections(
                 ChainFrom(UrlJoin(BASE, P_EVENT_TYPES), [organization |-> ORG_URI, count |-> COUNT]))
        equal(i) == /\ Len(all[i].slug) = Len(ident)
                    /\ \A k \in 1..Len(ident) : all[i].slug[k] = ident[k]
    IN  /\ pg_out = all
        /\ all = EventTypes
        /\ error = "-"
        /\ IF \E i \in 1..Len(all) : equal(i)
           THEN \E i \in 1..Len(all) :
                  /\ equal(i)
                  /\ \A j \in 1..(i - 1) : ~equal(j)
                  /\ et = all[i]
           ELSE et = NoneDict

\* the slug of the first and of the third listed event type was looked up
\* over two pages and the first one was returned
C13_Witness ==
  /\ pc = "check_et"
  /\ ident = SLUG_AB
  /\ Len(pg_out) = 3
  /\ pg_out[3].slug = ident
  /\ et = pg_out[1]
  /\ et # pg_out[3]

\* the page a request was answered with (the cursor of a page does not
\* depend on the form of the answer)
PageOf(r) == Respond(r.url, r.params, 3)

\* the requests of the pagination in progress or just returned
InPagination == pg_call # NoneDict

\* C14: within a pagination the caller's params go only with requests for
\* the first page, which are addressed to the caller's address and precede
\* every answered request; every later request carries no params and is
\* addressed to the cursor of the page answered immediately before it.
C14_ParamsOnFirstPageOnly ==
  /\ InPagination =>
       \A i \in (pg_call.mark + 1)..Len(log) :
         LET before == {j \in (pg_call.mark + 1)..(i - 1) : IsOk(log[j])}
         IN  IF before = {}
             THEN /\ log[i].url = pg_call.url
                  /\ log[i].params = pg_call.params
                  /\ log[i].params # NoneDict
             ELSE /\ log[i].params = NoneDict
                  /\ CarriesCursor(PageOf(log[Max(before)]))
                  /\ log[i].url = PageOf(log[Max(before)]).pagination.next_page
  /\ \A i \in 1..Len(log) :
       log[i].params = NoneDict =>
         /\ i > 1
         /\ IsCursor(log[i].url)
         /\ \E j \in 1..(i - 1) :
              /\ IsOk(log[j])
              /\ \A k \in (j + 1)..(i - 1) : ~IsOk(log[k])
              /\ CarriesCursor(PageOf(log[j]))
              /\ log[i].url = PageOf(log[j]).pagination.next_page

\* a pagination over two pages returned after its second page, requested
\* without params at the cursor, had first timed out
C14_Witness ==
  /\ PaginateReturned
  /\ pg_call.params # NoneDict
  /\ Len(log) >= pg_call.mark + 3
  /\ IsOk(log[pg_call.mark + 1])
  /\ IsTimeout(log[pg_call.mark + 2])
  /\ log[pg_call.mark + 2].params = NoneDict
  /\ IsCursor(log[Len(log)].url)
  /\ IsOk(log[Len(log)])

\* list_org_events has returned to run
OrgEventsReturned == pc = "ev_loop" /\ st_idx > 2

\* the requests of the scheduled-events listing, as positions in the log
IsEventListRequest(r) == ListBaseOf(r.url) = UrlJoin(BASE, P_SCHEDULED_EVENTS)
EventListRequests == {i \in 1..Len(log) : IsEventListRequest(log[i])}
\* the status a request asks for: in its params, or in its cursor
StatusOf(r) ==
  IF IsCursor(r.url) THEN (IF CursorTail(r.url)[1] = "a" THEN "active" ELSE "canceled")
  ELSE r.params.status
\* what run asks list_org_events for, per status
SinceParams(status) ==
  [organization |-> ORG_URI, status |-> status,
   min_start_time |-> IsoFormat(since) \o <<"Z">>, count |-> COUNT]

\* C15: when list_org_events returns, exactly two paginations of the
\* scheduled-events listing were made, the first for active and the second
\* for canceled events, each started with the organisation and `since` as
\* min_start_time; every request of the active pagination precedes every
\* request of the canceled one, and the result is the active records
\* followed by the canceled records, as listed.
C15_ActiveThenCanceled ==
  OrgEventsReturned =>
    LET url == UrlJoin(BASE, P_SCHEDULED_EVENTS)
        first == {i \in EventListRequests : ~IsCursor(log[i].url) /\ IsOk(log[i])}
        act == {i \in EventListRequests : StatusOf(log[i]) = "active"}
        can == {i \in EventListRequests : StatusOf(log[i]) = "canceled"}
    IN  /\ Cardinality(first) = 2
        /\ \E i, j \in first :
             /\ i < j
             /\ log[i].params = SinceParams("active")
             /\ log[j].params = SinceParams("canceled")
        /\ \A i \in EventListRequests : ~IsCursor(log[i].url) =>
             log[i].params \in {SinceParams("active"), SinceParams("canceled")}
        /\ act \cup can = EventListRequests
        /\ \A i \in act : \A j \in can : i < j
        /\ IsOk(log[Max(act)]) /\ ~CarriesCursor(PageOf(log[Max(act)]))
        /\ org_events =
             ConcatCollections(ChainFrom(url, SinceParams("active")))
               \o ConcatCollections(ChainFrom(url, SinceParams("canceled")))

\* list_org_events returned four active events from two pages followed by
\* two canceled events
C15_Witness ==
  /\ OrgEventsReturned
  /\ Len(org_events) = 6
  /\ \A i \in 1..4 : org_events[i].status = "active"
  /\ \A i \in 5..6 : org_events[i].status = "canceled"

\* run has filtered the collected events
EventsFiltered == ev_idx >= 1

\* the requests of invitee listings, as positions in the log
InviteeRequests == {i \in 1..Len(log) : IsInviteeList(ListBaseOf(log[i].url))}

\* whether `kept` is `all` restricted to the positions in `keep`, in order
RECURSIVE Restricted(_, _, _)
Restricted(kept, all, keep) ==
  IF all = <<>> THEN kept = <<>>
  ELSE IF Len(all) \in keep
  THEN /\ kept # <<>>
       /\ kept[Len(kept)] = all[Len(all)]
       /\ Restricted(SubSeq(kept, 1, Len(kept) - 1), SubSeq(all, 1, Len(all) - 1), keep)
  ELSE Restricted(kept, SubSeq(all, 1, Len(all) - 1), keep)

\* C16: after the filter, the kept events are the collected events whose
\* event_type is the same reference as the resolved event type's uri, in
\* their collected order, and an invitee listing is only ever requested
\* for a kept event.
C16_KeepsEventsOfResolvedType ==
  /\ EventsFiltered =>
       Restricted(events, org_events,
                  {i \in 1..Len(org_events) :
                     /\ Len(org_events[i].event_type) = Len(et.uri)
                     /\ \A k \in 1..Len(et.uri) : org_events[i].event_type[k] = et.uri[k]})
  /\ \A i \in InviteeRequests :
       /\ EventsFiltered
       /\ \E k \in 1..Len(events) :
            ListBaseOf(log[i].url) = IvListUrl(LastSegment(events[k].uri))

\* the run kept two events of the resolved event type, dropped an event
\* whose event_type only starts with the resolved uri, and has ended
C16_Witness ==
  /\ pc = "done"
  /\ Len(events) = 2
  /\ Len(org_events) > 3
  /\ \E i \in 1..Len(org_events) :
       /\ org_events[i].event_type # et.uri
       /\ StartsWith(org_events[i].event_type, et.uri)
  /\ InviteeRequests # {}

(* ---------------------------------------------------------------------- *)
(* Further properties of the matcher                                      *)
(* ---------------------------------------------------------------------- *)

\* a Monday date / a Calendly instant lies in the configured date range
DateInRange(text) ==
  /\ text # None
  /\ ToDatetime(START_DATE) <= ToDatetime(text)
  /\ ToDatetime(text) <= ToDatetime(END_DATE)
InstantInRange(t) ==
  t # NaT /\ ToDatetime(START_DATE) <= t /\ t <= ToDatetime(END_DATE)

\* the rows of the two Calendly files, event_start parsed
CalendlyFileRows ==
  [i \in 1..Len(csv_ceint \o csv_ce) |-> ParseEventStart((csv_ceint \o csv_ce)[i])]

\* C17: every Matched Row is made of a Monday row and a Calendly row that
\* both lie in the date range, and every pair of an in-range Calendly row
\* and an in-range Monday row with equal email texts is among the Matched
\* Rows, whatever other rows the two files hold.
C17_FiltersBeforeJoin ==
  d_pc = "matched" =>
    /\ \A i \in 1..Len(matched_df) :
         /\ DateInRange(matched_df[i]["Date Created"])
         /\ InstantInRange(matched_df[i]["event_start"])
    /\ \A i \in 1..Len(CalendlyFileRows) : \A j \in 1..Len(csv_monday) :
         (/\ InstantInRange(CalendlyFileRows[i]["event_start"])
          /\ DateInRange(csv_monday[j]["Date Created"])
          /\ StringEq(CalendlyFileRows[i]["invitee_email"], csv_monday[j]["Email"]))
           => Occurrences(matched_df, MergeRow(CalendlyFileRows[i], csv_monday[j])) > 0

\* both files held an in-range and an out-of-range row of the same email,
\* and the one in-range pair was matched
C17_Witness ==
  /\ d_pc = "matched"
  /\ Len(csv_monday) = 2 /\ Len(monday_df) = 1
  /\ Len(CalendlyFileRows) = 2 /\ Len(calendly_df) = 1
  /\ \A j \in 1..2 : csv_monday[j]["Email"] = EMAIL_A /\ csv_monday[j]["Date Created"] # None
  /\ \A i \in 1..2 : CalendlyFileRows[i]["invitee_email"] = EMAIL_A
                       /\ CalendlyFileRows[i]["event_start"] # NaT
  /\ Len(matched_df) = 1

(* ---------------------------------------------------------------------- *)
(* Further properties of _get and _paginate                               *)
(* ---------------------------------------------------------------------- *)

\* the timeouts after which _get slept: those of an attempt before the last
SleptAfter(r) == IsTimeout(r) /\ r.attempt < 3

\* C18: when a _get call has just been answered at attempt k, it issued
\* exactly k requests, numbered 1..k, to one address with one params, the
\* first k-1 of which timed out, k is at most 3, and the response returned
\* is the answer to attempt k. One sleep was made per timeout of a first or
\* second attempt, of 2 s and 4 s respectively, and none after any other
\* request.
C18_RetryWithExponentialBackoff ==
  /\ (log # <<>> /\ IsOk(log[Len(log)])) =>
       LET k == Len(LastCall)
       IN  /\ k \in 1..3
           /\ \A i \in 1..k :
                /\ LastCall[i].attempt = i
                /\ LastCall[i].url = LastCall[k].url
                /\ LastCall[i].params = LastCall[k].params
                /\ i < k => IsTimeout(LastCall[i])
           /\ \E form \in TermForms : resp = Respond(LastCall[k].url, LastCall[k].params, form)
           /\ k > 1 => slept[Len(slept)] = 2 ^ (k - 1)
           /\ k > 2 => slept[Len(slept) - 1] = 2
  /\ LET after == SelectSeq(log, SleptAfter)
     IN  /\ Len(slept) = Len(after)
         /\ \A n \in 1..Len(after) : slept[n] = 2 ^ after[n].attempt

\* a call was answered at its third attempt after sleeping 2 s and 4 s
C18_Witness ==
  /\ log # <<>>
  /\ IsOk(log[Len(log)])
  /\ log[Len(log)].attempt = 3
  /\ slept = <<2, 4>>

\* C19: every request that opens a _get call (the first of the run, and
\* each one that follows an answered request) is attempt 1, and a request
\* that follows a timeout is the next attempt at the same address; a
\* pagination that returns after N pages has issued at least N and at most
\* 3N requests.
C19_RetryBudgetPerPage ==
  /\ \A i \in 1..Len(log) :
       IF i = 1 \/ IsOk(log[i - 1])
       THEN log[i].attempt = 1
       ELSE /\ IsTimeout(log[i - 1])
            /\ log[i].attempt = log[i - 1].attempt + 1
            /\ log[i].url = log[i - 1].url
  /\ PaginateReturned =>
       LET N == Len(ChainFrom(pg_call.url, pg_call.params))
           issued == Len(RequestsSince(pg_call.mark))
       IN  N <= issued /\ issued <= 3 * N

\* a pagination over two pages returned after its first page was answered
\* at the third attempt and its second page at the second attempt
C19_Witness ==
  /\ PaginateReturned
  /\ Len(ChainFrom(pg_call.url, pg_call.params)) = 2
  /\ Len(RequestsSince(pg_call.mark)) = 5
  /\ log[pg_call.mark + 3].attempt = 3
  /\ IsOk(log[pg_call.mark + 3])
  /\ log[pg_call.mark + 4].attempt = 1
  /\ IsTimeout(log[pg_call.mark + 4])

\* a request for a page after the first has failed for good inside _paginate
FailedAfterFirstPage ==
  /\ log # <<>>
  /\ g_ret = "pg_page"
  /\ IsCursor(g_url)
  /\ log[Len(log)].url = g_url
  /\ \/ log[Len(log)].outcome = "error"
     \/ IsTimeout(log[Len(log)]) /\ log[Len(log)].attempt = 3

\* C20: when the request for a page after the first fails for good, the
\* run has raised with that request as its last one, and the caller of
\* _paginate holds nothing of the pages already fetched: no event type was
\* resolved from them, no event of the status being listed was added to
\* the collected events, no row was built for the event whose invitees
\* were being listed, and no file is written.
C20_NoPartialPagination ==
  FailedAfterFirstPage =>
    /\ pc = "raised"
    /\ error \in {"ReadTimeout", "HTTPError", "ConnectionError"}
    /\ pg_out # <<>>
    /\ outfile = NoFile
    /\ pg_ret = "et_list" => et = NoneDict /\ org_events = <<>>
    /\ pg_ret = "ev_page" =>
         /\ events = <<>> /\ rows = <<>>
         /\ \A i \in 1..Len(org_events) : org_events[i].status # StatusOf(log[Len(log)])
         /\ \A i \in 1..Len(pg_out) : pg_out[i].status = StatusOf(log[Len(log)])
    /\ pg_ret = "iv_page" =>
         \A i \in 1..Len(rows) :
           rows[i][1] # <<"event_uuid", LastSegment(events[ev_idx].uri)>>

\* the second page of the active events timed out three times after the
\* first page had been fetched, and none of its events reached run
C20_Witness ==
  /\ FailedAfterFirstPage
  /\ pg_ret = "ev_page"
  /\ error = "ReadTimeout"
  /\ Len(pg_out) = 2
  /\ org_events = <<>>

\* the second page of an event's invitees failed after rows had been built
\* for an earlier event
C20_InviteeCase ==
  /\ FailedAfterFirstPage
  /\ pg_ret = "iv_page"
  /\ pg_out # <<>>

(* ---------------------------------------------------------------------- *)
(* _paginate called on its own: the one of Extract/event_type_invitees.py *)
(* (over the retrying _get) and the one of the utility scripts            *)
(* calendly_organisation.py, organisation_event_types.py and              *)
(* organisation_snapshot.py (over their single-request _get)              *)
(* ---------------------------------------------------------------------- *)

\* the (url, params) a caller passes to _paginate
PaginateInputs ==
  { [url |-> <<>>, params |-> EmptyDict],
    [url |-> UrlJoin(BASE, P_EVENT_TYPES), params |-> EventTypeParams(ORG_URI)],
    [url |-> UrlJoin(BASE, P_SCHEDULED_EVENTS),
     params |-> OrgEventParams(ORG_URI, "active", IsoFormat(0) \o <<"Z">>)],
    [url |-> UrlJoin(BASE, P_SCHEDULED_EVENTS),
     params |-> OrgEventParams(ORG_URI, "canceled", IsoFormat(1) \o <<"Z">>)],
    [url |-> IvListUrl(<<"e","1">>), params |-> InviteeParams],
    [url |-> IvListUrl(<<"e","4">>), params |-> InviteeParams] }

\* _paginate(url, params) is entered: items = []
PaginateInit ==
  /\ TOKEN = <<"t","k">> /\ ident = <<>> /\ days = 0
  /\ org_uri = None /\ et = NoneDict /\ since = 0 /\ org_events = <<>> /\ st_idx = 0
  /\ events = <<>> /\ ev_idx = 0 /\ rows = <<>>
  /\ g_url = None /\ g_params = NoneDict /\ attempt = 0 /\ g_ret = "-"
  /\ resp = NoneDict
  /\ \E in \in PaginateInputs :
       /\ pg_url = in.url
       /\ pg_params = in.params
       /\ pg_call = [url |-> in.url, params |-> in.params, mark |-> 0]
  /\ pg_out = <<>>
  /\ \/ pc = "pg_loop" /\ pg_ret = "returned"
     \/ pc = "u_loop" /\ pg_ret = "u_returned"
  /\ log = <<>> /\ slept = <<>> /\ timeouts = 0
  /\ outfile = NoFile /\ error = "-"

\* utility scripts, _paginate: `while url`
UtilPaginateLoop ==
  /\ pc = "u_loop"
  /\ IF Truthy(pg_url)
     THEN /\ g_url' = pg_url
          /\ g_params' = pg_params
          /\ attempt' = 1
          /\ g_ret' = "u_page"
          /\ pc' = "u_get"
          /\ UNCHANGED pgVars
     ELSE /\ pc' = pg_ret
          /\ pg_url' = None
          /\ pg_params' = NoneDict
          /\ UNCHANGED <<pg_out, pg_ret, pg_call, getVars>>
  /\ UNCHANGED <<otherVars, inputVars, runVars, resp, histVars, outfile, error>>

\* utility scripts, _paginate: the loop body after _get returned
UtilPaginateExtend ==
  /\ pc = "u_page"
  /\ pg_out' = pg_out \o resp.collection
  /\ pg_url' = NextPage(resp)
  /\ pg_params' = NoneDict
  /\ pc' = "u_loop"
  /\ UNCHANGED <<otherVars, inputVars, runVars, getVars, resp, pg_ret, pg_call, histVars, outfile, error>>

\* utility scripts, _get: the request is answered 200
UtilGetOk ==
  /\ pc = "u_get"
  /\ Served(g_url, g_params)
  /\ \E form \in TermForms : resp' = Respond(g_url, g_params, form)
  /\ log' = Append(log, Request("ok"))
  /\ pc' = g_ret
  /\ UNCHANGED <<otherVars, inputVars, runVars, getVars, pgVars, slept, timeouts, outfile, error>>

\* mutant of UtilGetFailed: a read timeout is retried with backoff
UtilGetRetried ==
  /\ pc = "u_get"
  /\ \E outcome \in {"timeout", "error"} :
       /\ log' = Append(log, Request(outcome))
       /\ IF outcome = "timeout" /\ ~RetriesExhausted(attempt)
          THEN /\ slept' = Append(slept, Backoff(attempt))
               /\ attempt' = attempt + 1
               /\ UNCHANGED <<pc, error>>
          ELSE /\ pc' = "raised"
               /\ error' = IF outcome = "timeout" THEN "ReadTimeout" ELSE "HTTPError"
               /\ UNCHANGED <<attempt, slept>>
  /\ UNCHANGED <<otherVars, inputVars, runVars, g_url, g_params, g_ret, resp, pgVars,
                 timeouts, outfile>>

\* utility scripts, _get: requests.get or raise_for_status raises; nothing
\* catches a read timeout, organisation_snapshot._get turns an HTTPError
\* into a RuntimeError
UtilGetFailed ==
  /\ pc = "u_get"
  /\ \E outcome \in {"timeout", "error"} :
       /\ log' = Append(log, Request(outcome))
       /\ IF outcome = "timeout" THEN error' = "ReadTimeout"
          ELSE \E e \in {"HTTPError", "RuntimeError", "ConnectionError"} : error' = e
  /\ pc' = "raised"
  /\ UNCHANGED <<otherVars, inputVars, runVars, getVars, resp, pgVars, slept, timeouts, outfile>>

PaginateNext ==
  \/ PaginateLoop
  \/ PaginateExtend
  \/ GetOk
  \/ GetTimeout
  \/ GetError
  \/ UtilPaginateLoop
  \/ UtilPaginateExtend
  \/ UtilGetOk
  \/ UtilGetFailed

InitPaginate == PaginateInit /\ FlattenIdle /\ MatchIdle /\ MondayIdle

SpecPaginate == InitPaginate /\ [][PaginateNext]_vars

\* _paginate has returned to its caller
PaginateDone == pc \in {"returned", "u_returned"}

\* C21: no request is ever addressed to an empty address; a _paginate call
\* entered with an empty address returns the empty sequence without any
\* request; any other call returns right after the first answered page
\* whose response names no next page (no pagination object, no next_page,
\* next_page null or ""), every answered page before it having named one.
C21_StopsAtFirstPageWithoutCursor ==
  /\ \A i \in 1..Len(log) : log[i].url # None /\ log[i].url # <<>>
  /\ PaginateDone =>
       IF pg_call.url = <<>>
       THEN log = <<>> /\ pg_out = <<>>
       ELSE /\ log # <<>>
            /\ IsOk(log[Len(log)])
            /\ \E form \in TermForms :
                 resp = Respond(log[Len(log)].url, log[Len(log)].params, form)
            /\ ~CarriesCursor(resp)
            /\ \A j \in 1..(Len(log) - 1) : IsOk(log[j]) => CarriesCursor(PageOf(log[j]))

\* a pagination returned after a second page whose next_page was ""
C21_Witness ==
  /\ PaginateDone
  /\ Len(SelectSeq(log, IsOk)) = 2
  /\ "pagination" \in DOMAIN resp
  /\ "next_page" \in DOMAIN resp.pagination
  /\ resp.pagination.next_page = <<>>

\* a call entered with an empty address returned at once
C21_EmptyAddressCase == PaginateDone /\ pg_call.url = <<>> /\ log = <<>>
\* the last page had no pagination object / no next_page / a null next_page
C21_NoPaginationCase == PaginateDone /\ log # <<>> /\ "pagination" \notin DOMAIN resp
C21_NoNextPageCase ==
  PaginateDone /\ "pagination" \in DOMAIN resp /\ "next_page" \notin DOMAIN resp.pagination
C21_NullNextPageCase ==
  /\ PaginateDone
  /\ "pagination" \in DOMAIN resp
  /\ "next_page" \in DOMAIN resp.pagination
  /\ resp.pagination.next_page = None

\* the _paginate of a utility script is the one that was called
UtilityCall == pg_ret = "u_returned"

\* C22: in a utility script every request is a first attempt and nothing
\* ever sleeps; a request that is not answered (a read timeout included) is
\* the last one: the failure is raised at once, as ReadTimeout for a read
\* timeout, and the pagination around it never returns.
C22_UtilityGetNeverRetries ==
  UtilityCall =>
    /\ slept = <<>>
    /\ \A i \in 1..Len(log) :
         /\ log[i].attempt = 1
         /\ ~IsOk(log[i]) =>
              /\ i = Len(log)
              /\ pc = "raised"
              /\ IsTimeout(log[i]) => error = "ReadTimeout"
    /\ \A i \in 2..Len(log) :
         /\ IsOk(log[i - 1])
         /\ log[i].url # log[i - 1].url
    /\ PaginateDone => \A i \in 1..Len(log) : IsOk(log[i])

\* the request for the second page timed out and the pagination was
\* aborted with the first page in hand
C22_Witness ==
  /\ UtilityCall
  /\ pc = "raised"
  /\ error = "ReadTimeout"
  /\ Len(log) = 2
  /\ IsOk(log[1])
  /\ IsTimeout(log[2])
  /\ pg_out # <<>>

(* ---------------------------------------------------------------------- *)
(* Further properties of the Monday export                                *)
(* ---------------------------------------------------------------------- *)

\* the group names of GROUP_MAPPING entries 1..n whose group is on the
\* board and whose items were fetched without error, in mapping order
RECURSIVE FetchedNames(_)
FetchedNames(n) ==
  IF n = 0 THEN <<>>
  ELSE LET group_id == GROUP_MAPPING[n][1]
           onBoard == \E k \in 1..Len(m_groups) : m_groups[k].id = group_id
       IN  FetchedNames(n - 1)
             \o (IF onBoard /\ group_id \in GroupsFetched THEN <<GROUP_MAPPING[n][2]>> ELSE <<>>)

\* the group names of the frames that hold rows, in their order
NonEmptyNames ==
  LET holds(item) == ~FrameEmpty(item[2])
      kept == SelectSeq(m_dataframes, holds)
  IN  [k \in 1..Len(kept) |-> kept[k][1]]

\* the Group column of the written file, without repetitions, in row order
RECURSIVE Distinct(_)
Distinct(names) ==
  IF names = <<>> THEN <<>>
  ELSE LET before == Distinct(SubSeq(names, 1, Len(names) - 1))
       IN  IF \E k \in 1..Len(before) : before[k] = names[Len(names)]
           THEN before ELSE Append(before, names[Len(names)])

====
